---- MODULE Spec2Model ----
(***************************************************************************)
(* Model of the ReflexScript agent loop (rs-coder/agent_loop.py): one      *)
(* session of agent_loop together with the helpers it calls: call_vllm,    *)
(* extract_code_from_response, write_rfx_file, run_reflexc, parse_errors   *)
(* and format_error_feedback_for_history.                                  *)
(*                                                                         *)
(* Text is modelled as a sequence of tokens.  The tokens that the code     *)
(* looks at are kept apart: FENCE is the three backticks, TAG the word     *)
(* reflexscript, NL a line feed, SP a blank, KW the word reflex, LB and RB *)
(* the braces.  Every other token is an ordinary word.                     *)
(***************************************************************************)
EXTENDS Integers, Sequences, FiniteSets, TLC

FENCE == "FENCE"
TAG == "TAG"
NL == "NL"
SP == "SP"
KW == "KW"
LB == "LB"
RB == "RB"

\* Python's None, as a value no text is equal to.
None == <<"None">>

\* Bound of the model: the sessions explored have max_iterations in 0..MaxIter.
MaxIter == 3

----------------------------------------------------------------------------
\* Text helpers

\* The one element of a singleton.  {F(v) : v \in {e}} evaluates e once and F on
\* its value: the operators below whose argument is used many times are written
\* that way, so that the argument is evaluated once.
Only(S) == CHOOSE x \in S : TRUE

Min(S) == Only({(CHOOSE x \in T : \A y \in T : x <= y) : T \in {S}})
Max(S) == Only({(CHOOSE x \in T : \A y \in T : x >= y) : T \in {S}})

IsSpace(t) == t \in {SP, NL}

\* s[a..b] as a sequence (empty when b < a).
Slice(s, a, b) ==
    Only({(IF v[3] < v[2] THEN <<>> ELSE [i \in 1..(v[3] - v[2] + 1) |-> v[1][v[2] + i - 1]]) :
          v \in {<<s, a, b>>}})

\* str.strip(): the text without the whitespace at its two ends.
Strip(s) ==
    Only({(IF \A k \in 1..Len(t) : IsSpace(t[k]) THEN <<>>
           ELSE Slice(t, Min({k \in 1..Len(t) : ~IsSpace(t[k])}),
                         Max({k \in 1..Len(t) : ~IsSpace(t[k])}))) : t \in {s}})

RECURSIVE Flatten(_)
Flatten(ss) == IF ss = <<>> THEN <<>> ELSE Head(ss) \o Flatten(Tail(ss))

IsPrefix(s, t) == Len(s) <= Len(t) /\ SubSeq(t, 1, Len(s)) = s

\* Python truthiness of an optional text: None and the empty text are falsy.
Falsy(x) == x = None \/ x = <<>>

----------------------------------------------------------------------------
\* Candidate extraction (extract_code_from_response)

\* Index of the last token of the maximal whitespace run that starts at i
\* (i - 1 when there is none): what a greedy \s* consumes from i.
RECURSIVE WsRunEnd(_, _)
WsRunEnd(s, i) ==
    IF i <= Len(s) /\ IsSpace(s[i]) THEN WsRunEnd(s, i + 1) ELSE i - 1

\* Index of the first FENCE at or after position from, 0 when there is none.
FirstFence(s, from) ==
    IF \A j \in from..Len(s) : s[j] # FENCE THEN 0
    ELSE Min({j \in from..Len(s) : s[j] = FENCE})

\* The regular expression  open \s*\n(.*?)```  matched with the opening ending at
\* position o: \s* is greedy and must leave a line feed, so the group starts after
\* the last line feed of the whitespace run; (.*?) is lazy and stops at the first
\* fence.  The result is <<matched, group(1)>>.
FenceBody(s, o) ==
    Only({(IF (\E k \in (o + 1)..e : s[k] = NL) /\ FirstFence(s, e + 1) # 0
           THEN <<TRUE, Slice(s, Max({k \in (o + 1)..e : s[k] = NL}) + 1,
                              FirstFence(s, e + 1) - 1)>>
           ELSE <<FALSE, <<>>>>) : e \in {WsRunEnd(s, o + 1)}})

\* re.search(r'```reflexscript\s*\n(.*?)```', response, re.DOTALL): leftmost match.
TaggedMatches(s) ==
    {i \in 1..(Len(s) - 1) : s[i] = FENCE /\ s[i + 1] = TAG /\ FenceBody(s, i + 1)[1]}

\* re.search(r'```\s*\n(.*?)```', response, re.DOTALL): leftmost match.
GenericMatches(s) ==
    {i \in 1..Len(s) : s[i] = FENCE /\ FenceBody(s, i)[1]}

\* 'reflex ' in text
KwPositions(s) == {k \in 1..(Len(s) - 1) : s[k] = KW /\ s[k + 1] = SP}
HasKeyword(s) == KwPositions(s) # {}

\* The brace scan of lines 177-185: the index of the closing brace at which the
\* loop breaks, 0 when the loop runs to the end of the text.
RECURSIVE BraceScan(_, _, _, _)
BraceScan(s, i, brace_count, in_code) ==
    IF i > Len(s) THEN 0
    ELSE IF s[i] = LB THEN BraceScan(s, i + 1, brace_count + 1, TRUE)
    ELSE IF s[i] = RB
         THEN IF in_code /\ brace_count - 1 = 0
              THEN i
              ELSE BraceScan(s, i + 1, brace_count - 1, in_code)
    ELSE BraceScan(s, i + 1, brace_count, in_code)

KeywordScan(s) ==
    Only({(IF BraceScan(s, start, 0, FALSE) # 0
           THEN Strip(Slice(s, start, BraceScan(s, start, 0, FALSE)))
           ELSE None) : start \in {Min(KwPositions(s))}})

\* The code of the leftmost match of each fence pattern (None: no match).
TaggedCode(s) ==
    IF TaggedMatches(s) = {} THEN None
    ELSE Only({Strip(FenceBody(s, i + 1)[2]) : i \in {Min(TaggedMatches(s))}})

GenericCode(s) ==
    IF GenericMatches(s) = {} THEN None
    ELSE Only({Strip(FenceBody(s, i)[2]) : i \in {Min(GenericMatches(s))}})

\* Mutant of extract_code_from_response: the generic fence is tried before the
\* tagged one.
extract_code_from_response_GenericFirst(response) ==
    IF Falsy(response) THEN None
    ELSE IF GenericMatches(response) # {}
            /\ Only({HasKeyword(code) : code \in {GenericCode(response)}})
    THEN GenericCode(response)
    ELSE IF TaggedMatches(response) # {} THEN TaggedCode(response)
    ELSE IF HasKeyword(response) THEN KeywordScan(response)
    ELSE None

\* Mutant of extract_code_from_response: the code of a generic fence is returned
\* without looking for the keyword in it.
extract_code_from_response_AnyFence(response) ==
    IF Falsy(response) THEN None
    ELSE IF TaggedMatches(response) # {} THEN TaggedCode(response)
    ELSE IF GenericMatches(response) # {} THEN GenericCode(response)
    ELSE IF HasKeyword(response) THEN KeywordScan(response)
    ELSE None

extract_code_from_response(response) ==
    IF Falsy(response) THEN None
    ELSE IF TaggedMatches(response) # {} THEN TaggedCode(response)
    ELSE IF GenericMatches(response) # {}
            /\ Only({HasKeyword(code) : code \in {GenericCode(response)}})
    THEN GenericCode(response)
    ELSE IF HasKeyword(response) THEN KeywordScan(response)
    ELSE None

----------------------------------------------------------------------------
\* Verifier invocation (run_reflexc) and diagnostic parsing (parse_errors)

\* One line of verifier output.  kind says which branch of parse_errors the line
\* takes: "diag" matches error_pattern (FILE:LINE:COLUMN: TYPE: MESSAGE), "sugg"
\* starts, after stripping, with Suggestion:, "blank" is empty after stripping,
\* "text" is any other line.  indent: the line starts with a blank.  text is the
\* message of a diag line, the words after Suggestion: of a sugg line, and the
\* stripped line otherwise.
Line(kind, indent, ln, col, type, text) ==
    [kind |-> kind, indent |-> indent, file |-> <<"out.rfx">>, ln |-> ln, col |-> col,
     type |-> type, text |-> text]

TextLine(text) == Line("text", FALSE, 0, 0, <<>>, text)

\* str.strip() of the whole output: blank lines at both ends go, and so does the
\* indentation of the first line left.
StripOutput(ls) ==
    Only({(IF \A k \in 1..Len(t) : t[k].kind = "blank" THEN <<>>
           ELSE LET kept == Slice(t, Min({k \in 1..Len(t) : t[k].kind # "blank"}),
                                     Max({k \in 1..Len(t) : t[k].kind # "blank"}))
                IN  <<[kept[1] EXCEPT !.indent = FALSE]>> \o Tail(kept)) : t \in {ls}})

\* The triple run_reflexc hands to its caller: raised says that an exception left
\* the function instead of the pair (success, output).
Ran(success, output) == [raised |-> FALSE, success |-> success, output |-> output]

\* Mutant of run_reflexc: only FileNotFoundError is caught; TimeoutExpired and the
\* other exceptions leave the function.
run_reflexc_Uncaught(proc) ==
    IF proc.how = "exit"
    THEN Ran(proc.rc = 0, StripOutput(proc.out))
    ELSE IF proc.how = "notfound"
    THEN Ran(FALSE, <<TextLine(<<"Error:", SP, "reflexc", SP, "not", SP, "found">>)>>)
    ELSE [raised |-> TRUE, success |-> FALSE, output |-> <<>>]

\* run_reflexc: proc is what subprocess.run did: it exited with a return code and
\* an output, or raised TimeoutExpired, FileNotFoundError ("notfound") or another
\* exception, named by proc.how.  Every exception is caught (lines 224-229).
run_reflexc(proc) ==
    IF proc.how = "exit"
    THEN Ran(proc.rc = 0, StripOutput(proc.out))
    ELSE IF proc.how = "timeout"
    THEN Ran(FALSE, <<TextLine(<<"Error:", SP, "reflexc", SP, "timed", SP, "out">>)>>)
    ELSE IF proc.how = "notfound"
    THEN Ran(FALSE, <<TextLine(<<"Error:", SP, "reflexc", SP, "not", SP, "found">>)>>)
    ELSE Ran(FALSE, <<TextLine(<<"Error", SP, "running", SP, "reflexc:", SP, proc.how>>)>>)

\* parse_errors, lines 249-266: the loop over the lines, with the records closed
\* so far (errors) and the open record (current_error, None when there is none).
NoError == [file |-> <<>>, line |-> 0, column |-> 0, type |-> <<>>, message |-> None,
            suggestion |-> None]

RECURSIVE ParseLoop(_, _, _)
ParseLoop(lines, errs, current_error) ==
    IF lines = <<>>
    THEN IF current_error # NoError THEN Append(errs, current_error) ELSE errs
    ELSE LET line == Head(lines) IN
         IF line.kind = "diag"
         THEN ParseLoop(Tail(lines),
                        IF current_error # NoError THEN Append(errs, current_error) ELSE errs,
                        [file |-> line.file, line |-> line.ln, column |-> line.col,
                         type |-> line.type, message |-> line.text, suggestion |-> None])
         ELSE IF line.kind = "sugg" /\ current_error # NoError
         THEN ParseLoop(Tail(lines), errs, [current_error EXCEPT !.suggestion = line.text])
         ELSE IF line.kind # "blank" /\ current_error # NoError /\ ~line.indent
         THEN ParseLoop(Tail(lines), errs,
                        [current_error EXCEPT !.message = @ \o <<SP>> \o line.text])
         ELSE ParseLoop(Tail(lines), errs, current_error)

\* A line of verifier output as text: COLON is the colon, the digit strings are
\* words of their own, and the words \w+ matches are those of WordTokens.
COLON == "COLON"
NumberTokens == {"1", "2", "3", "4", "5"}
WordTokens == NumberTokens \cup {"error", "warning", "note", "type", "missing", "semicolon",
                                 "bad", "unit", "see", "here", "expected", "add", "Suggestion"}

\* int(match.group(2)), int(match.group(3)).
IntOf(t) ==
    IF t = "1" THEN 1 ELSE IF t = "2" THEN 2 ELSE IF t = "3" THEN 3 ELSE IF t = "4" THEN 4 ELSE 5

\* \w+(?:\s+\w+)* from position q, where a word starts: the index of its last
\* token.  The words are taken as far as they go.
RECURSIVE TypeEnd(_, _)
TypeEnd(line, q) ==
    IF q + 1 <= Len(line) /\ line[q + 1] \in WordTokens THEN TypeEnd(line, q + 1)
    ELSE IF q + 1 <= Len(line) /\ IsSpace(line[q + 1])
            /\ WsRunEnd(line, q + 1) + 1 <= Len(line)
            /\ line[WsRunEnd(line, q + 1) + 1] \in WordTokens
    THEN TypeEnd(line, WsRunEnd(line, q + 1) + 1)
    ELSE q

\* error_pattern = ^(.+):(\d+):(\d+):\s*(\w+(?:\s+\w+)*):\s*(.+)$ with the colon
\* that ends group 1 at position p: FALSE when there is no match with that
\* colon, else TRUE with the groups 2 to 5.
NoMatch == [matched |-> FALSE, ln |-> 0, col |-> 0, type |-> <<>>, message |-> <<>>]

MatchAt(line, p) ==
    IF ~(/\ p >= 2 /\ p + 5 <= Len(line)
         /\ line[p] = COLON /\ line[p + 1] \in NumberTokens
         /\ line[p + 2] = COLON /\ line[p + 3] \in NumberTokens
         /\ line[p + 4] = COLON)
    THEN NoMatch
    ELSE Only({(IF q > Len(line) \/ line[q] \notin WordTokens THEN NoMatch
                ELSE Only({(IF r + 1 > Len(line) \/ line[r + 1] # COLON THEN NoMatch
                            ELSE IF WsRunEnd(line, r + 2) + 1 <= Len(line)
                            THEN [matched |-> TRUE, ln |-> IntOf(line[p + 1]),
                                  col |-> IntOf(line[p + 3]), type |-> Slice(line, q, r),
                                  message |-> Slice(line, WsRunEnd(line, r + 2) + 1, Len(line))]
                            ELSE IF WsRunEnd(line, r + 2) >= r + 2
                            THEN [matched |-> TRUE, ln |-> IntOf(line[p + 1]),
                                  col |-> IntOf(line[p + 3]), type |-> Slice(line, q, r),
                                  message |-> <<line[Len(line)]>>]
                            ELSE NoMatch) : r \in {TypeEnd(line, q)}})) :
               q \in {WsRunEnd(line, p + 5) + 1}})

\* error_pattern.match(line): group 1 is greedy, so the match is the one whose
\* group 1 ends at the last colon that allows a match.
MatchPositions(line) == {p \in 2..Len(line) : MatchAt(line, p).matched}

\* Index of the first <<"Suggestion", COLON>> in a line (0: none).
SuggestionAt(line) ==
    IF \A k \in 1..(Len(line) - 1) : ~(line[k] = "Suggestion" /\ line[k + 1] = COLON) THEN 0
    ELSE Min({k \in 1..(Len(line) - 1) : line[k] = "Suggestion" /\ line[k + 1] = COLON})

\* Lines 250-264: what parse_errors takes a line of text for.
ReadLine(line) ==
    Only({(IF MatchPositions(l) # {}
           THEN Only({[Line("diag", l[1] = SP, MatchAt(l, p).ln, MatchAt(l, p).col,
                            MatchAt(l, p).type, MatchAt(l, p).message)
                          EXCEPT !.file = Slice(l, 1, p - 1)] :
                      p \in {Max(MatchPositions(l))}})
           ELSE IF Strip(l) = <<>> THEN Line("blank", FALSE, 0, 0, <<>>, <<>>)
           ELSE IF SuggestionAt(Strip(l)) = 1
           THEN Line("sugg", l[1] = SP, 0, 0, <<>>,
                     Strip(Slice(l, SuggestionAt(l) + 2, Len(l))))
           ELSE Line("text", l[1] = SP, 0, 0, <<>>, Strip(l))) : l \in {line}})

\* compiler_output.split('\n') read line by line.
ReadLines(text_lines) == [k \in 1..Len(text_lines) |-> ReadLine(text_lines[k])]

parse_errors(compiler_output) == ParseLoop(StripOutput(compiler_output), <<>>, NoError)

----------------------------------------------------------------------------
\* Feedback composition (format_error_feedback_for_history)

\* code.split('\n'): the lines of a text.
RECURSIVE SplitLines(_, _)
SplitLines(s, cur) ==
    IF s = <<>> THEN <<cur>>
    ELSE IF Head(s) = NL THEN <<cur>> \o SplitLines(Tail(s), <<>>)
    ELSE SplitLines(Tail(s), Append(cur, Head(s)))

\* Mutant of MinimalEntry: the line number is taken as an index from 0.
MinimalEntry_ZeroBased(e, lines) ==
    [line |-> e.line, message |-> e.message, fix |-> e.suggestion,
     code |-> IF 0 <= e.line /\ e.line < Len(lines) THEN Strip(lines[e.line + 1]) ELSE None]

\* One entry of the ERRORS list of the minimal format (lines 356-363).
MinimalEntry(e, lines) ==
    [line |-> e.line, message |-> e.message, fix |-> e.suggestion,
     code |-> IF 0 < e.line /\ e.line <= Len(lines) THEN Strip(lines[e.line]) ELSE None]

\* The content of a turn: the prompts and the replies are texts; a feedback message
\* is given by the parts the formatter puts into it.
Content(kind, text, entries, more, raw) ==
    [kind |-> kind, text |-> text, entries |-> entries, more |-> more, raw |-> raw]

\* Mutant of format_error_feedback_for_history: the minimal format is used only
\* when there are parsed errors to list.
format_error_feedback_for_history_FullWhenEmpty(code, errs, raw_output, simple) ==
    IF simple /\ errs # <<>>
    THEN Content("minimal", code, <<>>, 0, <<>>)
    ELSE Content("rich", code, <<>>, 0, <<>>)

\* parse_and_categorize_errors (lines 274-334).  A line is searched, in lower
\* case, for the markers of each category; on the words a line is made of, a
\* marker is found when one of these words is in the line.  A diagnostic line
\* holds its type followed by a colon.
DiagWord(type) ==
    IF type = <<>> THEN "note:"
    ELSE IF type[Len(type)] = "error" THEN "error:"
    ELSE IF type[Len(type)] = "warning" THEN "warning:"
    ELSE "note:"

LineWords(line) ==
    {line.text[k] : k \in 1..Len(line.text)}
        \cup (IF line.kind = "diag" THEN {DiagWord(line.type)} ELSE {})

InfoWords == {"phase:", "checking:", "processing:", "platform:", "toolchain:"}
SyntaxWords == {"error:", "Error:", "expected", "missing", "malformed"}
TypeWords == {"undefined", "undeclared"}
LinkerWords == {"ld:"}
WarningWords == {"warning:", "deprecated", "unused"}

\* Mutant of Bucket: the informational markers are not looked for.
Bucket_NoInfo(line) ==
    IF LineWords(line) \cap SyntaxWords # {} THEN "syntax"
    ELSE IF LineWords(line) \cap TypeWords # {} THEN "type"
    ELSE IF LineWords(line) \cap LinkerWords # {} THEN "linker"
    ELSE IF LineWords(line) \cap WarningWords # {} THEN "warning"
    ELSE "other"

\* Mutant of Bucket: the linker markers are looked for before the type markers.
Bucket_LinkerBeforeType(line) ==
    IF LineWords(line) \cap InfoWords # {} THEN "other"
    ELSE IF LineWords(line) \cap SyntaxWords # {} THEN "syntax"
    ELSE IF LineWords(line) \cap LinkerWords # {} THEN "linker"
    ELSE IF LineWords(line) \cap TypeWords # {} THEN "type"
    ELSE IF LineWords(line) \cap WarningWords # {} THEN "warning"
    ELSE "other"

\* Lines 293-332: the bucket of a line that is not blank, first match first.
Bucket(line) ==
    IF LineWords(line) \cap InfoWords # {} THEN "other"
    ELSE IF LineWords(line) \cap SyntaxWords # {} THEN "syntax"
    ELSE IF LineWords(line) \cap TypeWords # {} THEN "type"
    ELSE IF LineWords(line) \cap LinkerWords # {} THEN "linker"
    ELSE IF LineWords(line) \cap WarningWords # {} THEN "warning"
    ELSE "other"

InBucket(lines, cat) ==
    SelectSeq(lines, LAMBDA l : l.kind # "blank" /\ Bucket(l) = cat)

parse_and_categorize_errors(raw_output) ==
    [syntax_errors  |-> InBucket(raw_output, "syntax"),
     type_errors    |-> InBucket(raw_output, "type"),
     linker_errors  |-> InBucket(raw_output, "linker"),
     warnings       |-> InBucket(raw_output, "warning"),
     other_messages |-> InBucket(raw_output, "other")]

\* Lines 389-415: a section of the report shows the first 10 lines of a category.
Section(cat, lines) ==
    [k \in 1..(IF Len(lines) < 10 THEN Len(lines) ELSE 10) |-> [cat |-> cat, line |-> lines[k]]]

Overflow(lines) == IF Len(lines) > 10 THEN Len(lines) - 10 ELSE 0

\* Lines 417-456: the fixed parts of the full report that follow the sections:
\* the fixing suggestions when there are syntax, type or linker errors, the
\* summary when a section is shown, and always the line that the compilation
\* failed and the line that asks to review the errors above.
ReportPart(name) == [part |-> name]

ReportParts(c) ==
    LET total_errors == Len(c.syntax_errors) + Len(c.type_errors) + Len(c.linker_errors)
        shown        == Len(c.syntax_errors) + Len(c.type_errors) + Len(c.linker_errors)
                            + Len(c.warnings)
    IN  (IF total_errors > 0 THEN <<ReportPart("suggestions")>> ELSE <<>>)
        \o (IF shown > 0 THEN <<ReportPart("summary")>> ELSE <<>>)
        \o <<ReportPart("failed"), ReportPart("action_required")>>

\* format_error_feedback_for_history.  Minimal format (lines 346-377): the first 5
\* parsed errors, the count of the others, the code.  Full format (lines 380-465):
\* the sections of the syntax, type and linker errors and of the warnings, the
\* count of the lines they leave out, the code; the other messages are not shown.
format_error_feedback_for_history(code, errs, raw_output, simple) ==
    IF simple
    THEN LET lines == SplitLines(code, <<>>)
             shown == SubSeq(errs, 1, IF Len(errs) < 5 THEN Len(errs) ELSE 5)
         IN  Content("minimal", code,
                     [i \in 1..Len(shown) |-> MinimalEntry(shown[i], lines)],
                     IF Len(errs) > 5 THEN Len(errs) - 5 ELSE 0, <<>>)
    ELSE LET c == parse_and_categorize_errors(raw_output)
         IN  Content("rich", code, ReportParts(c),
                     Overflow(c.syntax_errors) + Overflow(c.type_errors)
                         + Overflow(c.linker_errors) + Overflow(c.warnings),
                     Section("syntax", c.syntax_errors) \o Section("type", c.type_errors)
                         \o Section("linker", c.linker_errors)
                         \o Section("warning", c.warnings))

----------------------------------------------------------------------------
\* The oracle (call_vllm)

\* What the HTTP exchange did.  exc: "none", or the requests exception raised:
\* "timeout" by the POST, "broken" while the body is streamed.  frags: the content
\* fragments of the stream up to [DONE], in arrival order.
Wire(exc, status, frags) == [exc |-> exc, status |-> status, frags |-> frags]

\* Mutant of call_vllm: when the stream breaks, what was received so far is
\* returned.
call_vllm_KeepsPartial(w) ==
    IF w.exc = "timeout" THEN None
    ELSE IF w.status # "200" THEN None
    ELSE Flatten(w.frags)

\* call_vllm: None on an exception or a status other than 200, else the
\* concatenation of the fragments.
call_vllm(wire) ==
    IF wire.exc = "timeout" THEN None
    ELSE IF wire.status # "200" THEN None
    ELSE IF wire.exc # "none" THEN None
    ELSE Flatten(wire.frags)

\* Mutant of check_vllm_health: any answer counts as healthy, whatever its status.
check_vllm_health_AnyStatus(probe) == probe # "refused"

\* check_vllm_health: probe is "refused" (a requests exception) or the status.
check_vllm_health(probe) == probe # "refused" /\ probe = "200"

\* Mutant of detect_reflexc_path: the platform path is returned unchecked.
detect_reflexc_path_Unchecked(platform_ok, which_ok) == <<"platform">>

\* detect_reflexc_path: the platform path when it exists and is executable, else
\* what `which reflexc` prints, else None.
detect_reflexc_path(platform_ok, which_ok) ==
    IF platform_ok THEN <<"platform">> ELSE IF which_ok THEN <<"which">> ELSE None

----------------------------------------------------------------------------
\* The environment explored

CodeA == <<KW, SP, "a", SP, LB, NL, "x", NL, RB>>
CodeB == <<KW, SP, "b", SP, LB, RB>>

OracleReplies ==
    { Wire("none", "401", <<>>),
      Wire("none", "200", <<>>),
      Wire("none", "200", <<<<"Sorry,">>, <<SP, "no">>>>),
      Wire("none", "200", <<<<"Here:", NL, FENCE, TAG>>, <<NL>> \o CodeA, <<NL, FENCE, NL>>>>),
      Wire("none", "200", <<<<FENCE, TAG, NL>> \o CodeB \o <<FENCE>>>>),
      Wire("broken", "200", <<<<FENCE, TAG, NL>> \o CodeB>>) }

FailOutput ==
    << Line("diag", FALSE, 2, 1, <<"error">>, <<"missing", SP, "semicolon">>),
       Line("sugg", TRUE, 0, 0, <<>>, <<"add", SP, ";">>),
       Line("blank", FALSE, 0, 0, <<>>, <<>>) >>

Proc(how, rc, out) == [how |-> how, rc |-> rc, out |-> out]

ProcResults ==
    { Proc("exit", 0, <<>>),
      Proc("exit", 1, FailOutput),
      Proc("timeout", 0, <<>>),
      Proc("notfound", 0, <<>>),
      Proc("OSError", 0, <<>>) }

----------------------------------------------------------------------------
\* One session of agent_loop

VARIABLES
    pc,                   \* where the session is
    simple_mode,          \* argument simple_mode
    max_iterations,       \* argument max_iterations
    reflexc,              \* local reflexc
    iteration,            \* the loop variable (0 before the loop)
    current_code,         \* local current_code
    errors,               \* local errors
    compiler_output,      \* local compiler_output
    conversation_history, \* local conversation_history
    messages,             \* local messages
    response,             \* local response
    file,                 \* the text of the file at output_path (None: no file)
    exit,                 \* the return statement taken ("none" while running)
    ret,                  \* the value returned (-1 while running)
    events,               \* log of the calls made to the outside
    wire,                 \* the HTTP exchange of the last oracle call
    input,                \* a function applied on its own: its name and argument
    output                \* and the value it returned

\* The state of generate_all_parallel (gen_prompts.py) and of its batch tasks.
VARIABLES
    main_pc,              \* where generate_all_parallel is
    max_concurrent,       \* config.max_concurrent
    checkpoint,           \* per batch, the content of its checkpoint file (None: no file)
    semaphore,            \* the value of the asyncio.Semaphore
    completed,            \* progress.completed
    failed,               \* progress.failed
    task_pc,              \* per batch, where its process_batch task is
    attempt,              \* per batch, the loop variable of generate_batch_with_retry
    last_error,           \* per batch, the local last_error
    retry_result,         \* per batch, how generate_batch_with_retry ended
    outcome,              \* per batch, how process_batch ended
    calls                 \* per batch, the number of calls of generate_batch

gen_vars == <<main_pc, max_concurrent, checkpoint, semaphore, completed, failed,
              task_pc, attempt, last_error, retry_result, outcome, calls>>

vars == <<pc, simple_mode, max_iterations, reflexc, iteration, current_code, errors,
          compiler_output, conversation_history, messages, response, file, exit, ret,
          events, wire, input, output, gen_vars>>

Turn(role, content) == [role |-> role, content |-> content]

Prompt(name) == Content("prompt", <<name>>, <<>>, 0, <<>>)

\* The system prompt: SIMPLE_SYSTEM_PROMPT in simple mode, else the file's text.
SystemPrompt(simple) == IF simple THEN Prompt("SIMPLE_SYSTEM_PROMPT") ELSE Prompt("system_prompt")
UserPrompt == Prompt("user_prompt")

\* An entry of the log: ev is the call ("health", "models", "detect", "oracle",
\* "extract", "write", "verify"), it the iteration, text the text involved (the
\* reply, the code extracted or written, the file the verifier read), tag what
\* the outside did (the status of the probe, where a compiler is, the status or
\* exception of the oracle, the verdict).
Event(ev, it, text, tag) == [ev |-> ev, it |-> it, text |-> text, tag |-> tag]

\* No exchange yet; no function applied on its own.
NoWire == Wire("none", "", <<>>)
NoInput == [fn |-> "none", arg |-> <<>>]

\* generate_all_parallel is not running.
GenIdle ==
    /\ main_pc = "idle"
    /\ max_concurrent = 0
    /\ checkpoint = <<>>
    /\ semaphore = 0
    /\ completed = 0
    /\ failed = 0
    /\ task_pc = <<>>
    /\ attempt = <<>>
    /\ last_error = <<>>
    /\ retry_result = <<>>
    /\ outcome = <<>>
    /\ calls = <<>>

\* The session of agent_loop is not running.
SessionIdle ==
    /\ wire = NoWire
    /\ simple_mode = FALSE
    /\ max_iterations = 0
    /\ reflexc = None
    /\ iteration = 0
    /\ current_code = None
    /\ errors = <<>>
    /\ compiler_output = <<>>
    /\ conversation_history = <<>>
    /\ messages = <<>>
    /\ response = None
    /\ file = None
    /\ exit = "none"
    /\ ret = -1
    /\ events = <<>>

Init ==
    /\ pc = "load"
    /\ simple_mode \in BOOLEAN
    /\ max_iterations \in 0..MaxIter
    /\ reflexc = None
    /\ iteration = 0
    /\ current_code = None
    /\ errors = <<>>
    /\ compiler_output = <<>>
    /\ conversation_history = <<>>
    /\ messages = <<>>
    /\ response = None
    /\ file = None
    /\ exit = "none"
    /\ ret = -1
    /\ events = <<>>
    /\ wire = NoWire
    /\ input = NoInput
    /\ output = <<>>
    /\ GenIdle

\* return <value> at the return statement named site.
Return(site, value) ==
    /\ pc' = "done"
    /\ exit' = site
    /\ ret' = value

\* Lines 643-658: load the prompts.
LoadPrompts ==
    /\ pc = "load"
    /\ \E system_ok, user_ok \in BOOLEAN :
         IF ~simple_mode /\ ~system_ok THEN Return("system_prompt_error", 1)
         ELSE IF ~user_ok THEN Return("user_prompt_error", 1)
         ELSE pc' = "health" /\ UNCHANGED <<exit, ret>>
    /\ UNCHANGED <<gen_vars, wire, input, output, simple_mode, max_iterations, reflexc, iteration, current_code, errors,
                   compiler_output, conversation_history, messages, response, file, events>>

\* Lines 660-666: the health probe.
CheckHealth ==
    /\ pc = "health"
    /\ \E probe \in {"200", "503", "refused"} :
         /\ events' = Append(events, Event("health", iteration, <<>>, probe))
         /\ IF ~check_vllm_health(probe) THEN Return("oracle_unreachable", 1)
            ELSE pc' = "model" /\ UNCHANGED <<exit, ret>>
    /\ UNCHANGED <<gen_vars, wire, input, output, simple_mode, max_iterations, reflexc, iteration, current_code, errors,
                   compiler_output, conversation_history, messages, response, file>>

\* Lines 668-670: get_model_name (the name has no effect on the loop).
GetModel ==
    /\ pc = "model"
    /\ events' = Append(events, Event("models", iteration, <<>>, "model"))
    /\ pc' = "detect"
    /\ UNCHANGED <<gen_vars, wire, input, output, simple_mode, max_iterations, reflexc, iteration, current_code, errors,
                   compiler_output, conversation_history, messages, response, file, exit, ret>>

\* Lines 672-680: detect the compiler.  The sessions explored run where the
\* platform path holds no compiler: `which reflexc` decides.
DetectReflexc ==
    /\ pc = "detect"
    /\ \E platform_ok \in {FALSE}, which_ok \in BOOLEAN :
         LET path == detect_reflexc_path(platform_ok, which_ok) IN
         /\ reflexc' = path
         /\ events' = Append(events,
                Event("detect", iteration, <<>>,
                      IF platform_ok THEN "platform" ELSE IF which_ok THEN "which" ELSE "missing"))
         /\ IF path = None THEN Return("no_compiler", 1)
            ELSE pc' = "loop" /\ UNCHANGED <<exit, ret>>
    /\ UNCHANGED <<gen_vars, wire, input, output, simple_mode, max_iterations, iteration, current_code, errors,
                   compiler_output, conversation_history, messages, response, file>>

\* Mutant of RangeNext: the loop variable skips a value.
RangeNext_Skips(it) == it + 2

\* Mutant of RangeNext: the loop variable keeps its value.
RangeNext_Stays(it) == it

\* Line 691: the next value of the loop variable.
RangeNext(it) == it + 1

\* Mutant of ForHasNext: the range runs one too far.
ForHasNext_OffByOne(it, n) == it <= n

\* Line 691: for iteration in range(1, max_iterations + 1) has a next value.
ForHasNext(it, n) == it < n

\* Mutant of BuildHistory: a retry starts from the two prompts again, followed by
\* the feedback; the turns in between are dropped.
BuildHistory_Restart(history, code, errs, raw_output, simple) ==
    IF code = None
    THEN <<Turn("system", SystemPrompt(simple)), Turn("user", UserPrompt)>>
    ELSE <<Turn("system", SystemPrompt(simple)), Turn("user", UserPrompt),
           Turn("user", format_error_feedback_for_history(code, errs, raw_output, simple))>>

\* Mutant of BuildHistory: a retry sends the history as it is, without the feedback.
BuildHistory_NoFeedback(history, code, errs, raw_output, simple) ==
    IF code = None
    THEN <<Turn("system", SystemPrompt(simple)), Turn("user", UserPrompt)>>
    ELSE history

\* Lines 695-714: the message list of this iteration and the history after it.
BuildHistory(history, code, errs, raw_output, simple) ==
    IF code = None
    THEN <<Turn("system", SystemPrompt(simple)), Turn("user", UserPrompt)>>
    ELSE Append(history,
                Turn("user", format_error_feedback_for_history(code, errs, raw_output, simple)))

\* Lines 691-714: the loop enters its next iteration and builds the messages.
BeginIteration ==
    /\ pc = "loop"
    /\ ForHasNext(iteration, max_iterations)
    /\ iteration' = RangeNext(iteration)
    /\ conversation_history' =
         BuildHistory(conversation_history, current_code, errors, compiler_output, simple_mode)
    /\ messages' = conversation_history'
    /\ pc' = "call"
    /\ UNCHANGED <<gen_vars, wire, input, output, simple_mode, max_iterations, reflexc, current_code, errors,
                   compiler_output, response, file, exit, ret, events>>

\* Lines 805-807: the loop is over without a success.
Exhausted ==
    /\ pc = "loop"
    /\ ~ForHasNext(iteration, max_iterations)
    /\ Return("exhausted", 1)
    /\ UNCHANGED <<gen_vars, wire, input, output, simple_mode, max_iterations, reflexc, iteration, current_code, errors,
                   compiler_output, conversation_history, messages, response, file, events>>

\* The tag logged for an oracle call: the exception, else the status.
WireTag(w) == IF w.exc # "none" THEN w.exc ELSE w.status

\* Mutant of AfterReply: the reply is appended as an assistant turn even when it
\* is empty.
AfterReply_AlwaysAppends(history, reply) ==
    Append(history, Turn("assistant", Content("reply", reply, <<>>, 0, <<>>)))

\* Lines 756-764: the oracle is called with messages; an empty reply ends the
\* iteration (continue), any other reply is appended as an assistant turn.
AfterReply(history, reply) ==
    IF Falsy(reply) THEN history
    ELSE Append(history, Turn("assistant", Content("reply", reply, <<>>, 0, <<>>)))

CallOracle ==
    /\ pc = "call"
    /\ \E w \in OracleReplies :
         /\ wire' = w
         /\ response' = call_vllm(w)
         /\ events' = Append(events,
                Event("oracle", iteration, call_vllm(w), WireTag(w)))
         /\ conversation_history' = AfterReply(conversation_history, call_vllm(w))
         /\ pc' = IF Falsy(call_vllm(w)) THEN "loop" ELSE "extract"
    /\ UNCHANGED <<gen_vars, input, output, simple_mode, max_iterations, reflexc, iteration, current_code, errors,
                   compiler_output, messages, file, exit, ret>>

\* The texts call_vllm can return in the environment explored, and the result
\* of extract_code_from_response on each of them (the function, tabulated).
ReplyTexts == {call_vllm(w) : w \in OracleReplies}
Extraction == [reply \in ReplyTexts |-> extract_code_from_response(reply)]

\* Mutant of Candidate: a reply without code is itself taken as the candidate.
Candidate_TakesReply(reply, prior) ==
    IF ~Falsy(Extraction[reply]) THEN Extraction[reply]
    ELSE reply

\* Mutant of Candidate: with no earlier candidate, a reply without code is taken
\* as the candidate.
Candidate_Fabricates(reply, prior) ==
    IF ~Falsy(Extraction[reply]) THEN Extraction[reply]
    ELSE IF prior = None THEN reply
    ELSE prior

\* Mutant of Candidate: once a candidate exists it is kept, whatever the reply holds.
Candidate_KeepsPrior(reply, prior) ==
    IF prior # None THEN prior
    ELSE IF ~Falsy(Extraction[reply]) THEN Extraction[reply]
    ELSE prior

\* Lines 767-775: the candidate of this iteration: the extracted code, else the
\* code of an earlier iteration, else None (the iteration ends).
Candidate(reply, prior) ==
    IF ~Falsy(Extraction[reply]) THEN Extraction[reply]
    ELSE prior

\* Mutant of write_rfx_file: a file that exists is left as it is.
write_rfx_file_OnlyFirst(code, old) == IF old = None THEN code ELSE old

\* Mutant of write_rfx_file: the file is not written.
write_rfx_file_Skipped(code, old) == old

\* write_rfx_file: the text of the file after path.write_text(code).
write_rfx_file(code, old) == code

\* Lines 766-778: extract the code and write it to the output file.
ExtractCode ==
    /\ pc = "extract"
    /\ LET extracted == Extraction[response]
           code      == Candidate(response, current_code)
       IN  IF code = None
           THEN /\ events' = Append(events,
                       Event("extract", iteration, extracted, "none"))
                /\ pc' = "loop"
                /\ UNCHANGED <<current_code, file>>
           ELSE /\ current_code' = code
                /\ file' = write_rfx_file(code, file)
                /\ events' = events \o
                       << Event("extract", iteration, extracted,
                                IF Falsy(extracted) THEN "fallback" ELSE "found"),
                          Event("write", iteration, write_rfx_file(code, file), "write") >>
                /\ pc' = "compile"
    /\ UNCHANGED <<gen_vars, wire, input, output, simple_mode, max_iterations, reflexc, iteration, errors,
                   compiler_output, conversation_history, messages, response, exit, ret>>

\* The tag logged for a verifier run.
ProcTag(proc) ==
    IF proc.how = "exit" THEN (IF proc.rc = 0 THEN "pass" ELSE "fail") ELSE proc.how

\* Lines 782-803: run the compiler on the output file; return 0 on success, else
\* keep the output and the parsed errors for the feedback of the next iteration.
\* agent_loop has no try around the call: an exception leaving run_reflexc leaves
\* agent_loop too.
Compile ==
    /\ pc = "compile"
    /\ \E proc \in ProcResults :
         LET r == run_reflexc(proc) IN
         /\ events' = Append(events, Event("verify", iteration, file, ProcTag(proc)))
         /\ IF r.raised
            THEN Return("exception", -1) /\ UNCHANGED <<compiler_output, errors>>
            ELSE IF r.success
            THEN Return("success", 0) /\ compiler_output' = r.output /\ UNCHANGED errors
            ELSE /\ compiler_output' = r.output
                 /\ errors' = parse_errors(r.output)
                 /\ pc' = "loop"
                 /\ UNCHANGED <<exit, ret>>
    /\ UNCHANGED <<gen_vars, wire, input, output, simple_mode, max_iterations, reflexc, iteration, current_code,
                   conversation_history, messages, response, file>>

Next ==
    \/ LoadPrompts
    \/ CheckHealth
    \/ GetModel
    \/ DetectReflexc
    \/ BeginIteration
    \/ Exhausted
    \/ CallOracle
    \/ ExtractCode
    \/ Compile

Spec == Init /\ [][Next]_vars

\* The session runs on while it has a step to take.
FairSpec == Spec /\ WF_vars(Next)

\* The outcome of the session, from the return statement taken: line 789 is the
\* success, line 807 the end of the loop, lines 652, 658, 665 and 679 the fatal
\* errors before the loop; "Exception" when an exception left agent_loop.
Outcome ==
    IF exit = "none" THEN "InProgress"
    ELSE IF exit = "success" THEN "Success"
    ELSE IF exit = "exhausted" THEN "ExhaustedIterations"
    ELSE IF exit = "exception" THEN "Exception"
    ELSE "FatalError"

----------------------------------------------------------------------------
\* The helpers applied on their own: a second specification, in which a function
\* of agent_loop.py is applied once to an argument drawn from a bounded set.

\* Bounds: a reply is made of at most MaxSegs parts; the text after a keyword
\* holds at most MaxBraces braces and words; the output of the verifier has at
\* most MaxLines lines.
MaxSegs == 3
MaxBraces == 4
MaxLines == 3

\* All sequences over S of length 0..n.
RECURSIVE SeqsUpTo(_, _)
SeqsUpTo(S, n) ==
    IF n = 0 THEN {<<>>}
    ELSE LET shorter == SeqsUpTo(S, n - 1)
         IN  shorter \cup {Append(q, x) : q \in {r \in shorter : Len(r) = n - 1}, x \in S}

\* A part of a reply: its kind, its text, and the code in it (None: no code).
Seg(kind, text, code) == [kind |-> kind, text |-> text, code |-> code]

ReplyParts ==
    { Seg("prose", <<"Here", SP, "it", SP, "is:", NL>>, None),
      Seg("tagged", <<FENCE, TAG, NL, KW, SP, "a", SP, LB, RB, NL, FENCE, NL>>,
          <<KW, SP, "a", SP, LB, RB>>),
      Seg("tagged", <<FENCE, TAG, SP, NL, NL, SP, "b", SP, "c", SP, NL, FENCE, NL>>,
          <<"b", SP, "c">>),
      Seg("untagged", <<FENCE, NL, KW, SP, "d", SP, LB, RB, NL, FENCE, NL>>,
          <<KW, SP, "d", SP, LB, RB>>),
      Seg("untagged", <<FENCE, SP, NL, "no", SP, "code", NL, FENCE, NL>>,
          <<"no", SP, "code">>),
      Seg("span", <<"try", SP, KW, SP, "e", SP, LB, "x", RB, SP, "ok", NL>>,
          <<KW, SP, "e", SP, LB, "x", RB>>) }

\* The replies made of these parts, and the replies that hold one keyword
\* followed by braces and words.
SegmentedReplies == SeqsUpTo(ReplyParts, MaxSegs) \ {<<>>}

BraceReplies ==
    {<<Seg("span", <<"see", SP, KW, SP, "f", SP>> \o t, None)>> :
        t \in SeqsUpTo({LB, RB, "x"}, MaxBraces)}

\* The text of a reply given by its parts.
ReplyText(parts) == Flatten([k \in 1..Len(parts) |-> parts[k].text])

\* A line given to parse_errors: what it is written as (a diagnostic with its
\* line number, column and message, a suggestion, a continuation, a blank line)
\* and its text.
OutLine(is, ln, col, msg, text) == [is |-> is, ln |-> ln, col |-> col, msg |-> msg, text |-> text]

DiagText(ln, col, type, msg) ==
    <<"out.rfx", COLON, ln, COLON, col, COLON, SP>> \o type \o <<COLON, SP>> \o msg

Diag(ln, col, type, msg) == OutLine("diag", IntOf(ln), IntOf(col), msg, DiagText(ln, col, type, msg))

OutputLines ==
    { Diag("2", "1", <<"error">>, <<"missing", SP, "semicolon">>),
      Diag("3", "5", <<"type", SP, "error">>, <<"bad", SP, "unit">>),
      Diag("4", "2", <<"error">>,
           <<"see", SP, "out.rfx", COLON, "1", COLON, "5", COLON, SP, "note", COLON, SP, "here">>),
      OutLine("sugg", 0, 0, <<"add", SP, ";">>, <<SP, SP, "Suggestion", COLON, SP, "add", SP, ";">>),
      OutLine("cont", 0, 0, <<"expected", SP, "unit">>, <<SP, SP, "expected", SP, "unit">>),
      OutLine("cont", 0, 0, <<"see", SP, "here">>, <<"see", SP, "here">>),
      OutLine("blank", 0, 0, <<>>, <<>>) }

VerifierOutputs == SeqsUpTo(OutputLines, MaxLines) \ {<<>>}

\* The texts of the lines.
Texts(lines) == [k \in 1..Len(lines) |-> lines[k].text]

\* Lines 470-476: the errors whose line number was not seen before, in order.
RECURSIVE UniqueErrors(_, _)
UniqueErrors(errs, seen_lines) ==
    IF errs = <<>> THEN <<>>
    ELSE IF Head(errs).line \in seen_lines
    THEN UniqueErrors(Tail(errs), seen_lines)
    ELSE <<Head(errs)>> \o UniqueErrors(Tail(errs), seen_lines \cup {Head(errs).line})

\* Mutant of format_error_feedback: the list is cut to ten before the line
\* numbers are compared.
format_error_feedback_CutFirst(errs) ==
    LET unique_errors == UniqueErrors(SubSeq(errs, 1, Min({10, Len(errs)})), {})
    IN  [limited_errors |-> unique_errors,
         truncated      |-> Len(errs) > 10,
         more           |-> Max({Len(errs) - 10, 0})]

\* Lines 468-491: the errors listed in the retry prompt and the line that tells
\* how many were left out (truncated: the line is there; more: its number).
format_error_feedback(errs) ==
    LET unique_errors == UniqueErrors(errs, {})
    IN  [limited_errors |-> SubSeq(unique_errors, 1, Min({10, Len(unique_errors)})),
         truncated      |-> Len(unique_errors) > 10,
         more           |-> IF Len(unique_errors) > 10 THEN Len(unique_errors) - 10 ELSE 0]

\* The most errors a list given to format_error_feedback holds.
MaxErrors == 12

\* An error record of parse_errors on the given line; its column tells the
\* records of one line apart.
ErrorAt(ln, col) ==
    [NoError EXCEPT !.line = ln, !.column = col, !.type = <<"error">>,
                    !.message = <<"missing", SP, "semicolon">>, !.file = <<"out.rfx">>]

\* Error lists: the short ones over three line numbers, and the long ones with
\* lines 1..n in order where one position repeats the line of another.
ErrorLists ==
    {[k \in 1..Len(q) |-> ErrorAt(q[k], k)] : q \in SeqsUpTo(1..3, MaxLines)}
    \cup {[k \in 1..n |-> ErrorAt(IF k = i THEN j ELSE k, k)] :
            <<n, i, j>> \in {t \in (9..MaxErrors) \X (1..MaxErrors) \X (1..MaxErrors) :
                                t[2] <= t[1] /\ t[3] <= t[1]}}

\* Lines given to parse_and_categorize_errors: lines with the markers of one
\* category or of two, a diagnostic line, a line without markers, a blank line.
ReportLines ==
    { TextLine(<<"checking:", SP, "missing", SP, "input">>),
      TextLine(<<"expected", SP, "undefined", SP, "name">>),
      TextLine(<<"undefined", SP, "symbol", SP, "ld:", SP, "unused">>),
      TextLine(<<"ld:", SP, "deprecated", SP, "flag">>),
      TextLine(<<"unused", SP, "variable">>),
      TextLine(<<"done">>),
      Line("diag", FALSE, 2, 1, <<"error">>, <<"missing", SP, "semicolon">>),
      Line("blank", FALSE, 0, 0, <<>>, <<>>) }

RawOutputs == SeqsUpTo(ReportLines, MaxLines) \ {<<>>}

\* The arguments of format_error_feedback_for_history.
FeedbackArgs(code, errs, raw_output, simple) ==
    [code |-> code, errors |-> errs, raw_output |-> raw_output, simple |-> simple]

\* The most errors a list given to format_error_feedback_for_history holds.
MaxFeedbackErrors == 7

\* Error lists for the minimal format: up to MaxFeedbackErrors errors on line 1,
\* one of them moved to a line from 0 to 4 (the codes have 1 and 3 lines).
FeedbackErrorLists ==
    {[k \in 1..n |-> ErrorAt(IF k = i THEN j ELSE 1, k)] :
        <<n, i, j>> \in {t \in (0..MaxFeedbackErrors) \X (1..MaxFeedbackErrors) \X (0..4) :
                            t[2] <= t[1] \/ (t[1] = 0 /\ t[2] = 1 /\ t[3] = 0)}}

Applied(fn, arg) == [fn |-> fn, arg |-> arg]

PureInit ==
    /\ pc = "apply"
    /\ \/ \E parts \in SegmentedReplies \cup BraceReplies :
            input = Applied("extract_code_from_response", parts)
       \/ \E lines \in VerifierOutputs :
            input = Applied("parse_errors", lines)
       \/ \E raw_output \in RawOutputs :
            input = Applied("parse_and_categorize_errors", raw_output)
       \/ \E errs \in ErrorLists :
            input = Applied("format_error_feedback", errs)
       \/ \E raw_output \in RawOutputs, simple \in BOOLEAN :
            input = Applied("format_error_feedback_for_history",
                            FeedbackArgs(CodeA, parse_errors(raw_output), raw_output, simple))
       \/ \E errs \in FeedbackErrorLists, code \in {CodeA, CodeB} :
            input = Applied("format_error_feedback_for_history",
                            FeedbackArgs(code, errs, <<>>, TRUE))
    /\ output = <<>>
    /\ SessionIdle
    /\ GenIdle

\* The function named fn returns value.
Returns(fn, value) ==
    /\ pc = "apply"
    /\ input.fn = fn
    /\ output' = value
    /\ pc' = "applied"
    /\ UNCHANGED <<gen_vars, wire, input, simple_mode, max_iterations, reflexc, iteration,
                   current_code, errors, compiler_output, conversation_history, messages,
                   response, file, exit, ret, events>>

ApplyExtract ==
    Returns("extract_code_from_response", extract_code_from_response(ReplyText(input.arg)))

ApplyParseErrors ==
    Returns("parse_errors", parse_errors(ReadLines(Texts(input.arg))))

ApplyCategorize ==
    Returns("parse_and_categorize_errors", parse_and_categorize_errors(input.arg))

ApplyFeedbackForHistory ==
    Returns("format_error_feedback_for_history",
            format_error_feedback_for_history(input.arg.code, input.arg.errors,
                                              input.arg.raw_output, input.arg.simple))

ApplyFormatFeedback ==
    Returns("format_error_feedback", format_error_feedback(input.arg))

PureNext ==
    \/ ApplyExtract
    \/ ApplyParseErrors
    \/ ApplyCategorize
    \/ ApplyFormatFeedback
    \/ ApplyFeedbackForHistory

PureSpec == PureInit /\ [][PureNext]_vars

\* input was given to the function fn, and output is what it returned.
Called(fn) == pc = "applied" /\ input.fn = fn

----------------------------------------------------------------------------
\* Parallel batch generation (gen_prompts.py)

\* Config.max_retries (line 47).
max_retries == 3

\* The number of batches, len(DOMAINS) * config.batches_per_domain, and the
\* largest config.max_concurrent explored.
TotalBatches == 3
MaxConcurrent == 2

Batches == 1..TotalBatches

\* An exception raised by generate_batch: its message and the attempt it was
\* raised in.
Exception(msg, at) == [msg |-> msg, at |-> at]
NoException == Exception(<<>>, 0)

\* What the API does on one request: it answers with JSON that is a list of
\* prompts (items), or JSON that is no list (null), or the request raises.
ApiReply(how, iterable, items, msg) ==
    [how |-> how, iterable |-> iterable, items |-> items, msg |-> msg]

ApiReplies ==
    { ApiReply("data", TRUE, <<"valid", "invalid">>, <<>>),
      ApiReply("data", FALSE, <<>>, <<>>),
      ApiReply("error", FALSE, <<>>, <<"Request", "timed", "out.">>),
      ApiReply("error", FALSE, <<>>, <<"Error", "code:", "401">>) }

\* The content of a checkpoint file left by an earlier run.
OldCheckpoint == <<"valid", "valid">>

\* validate_prompt (lines 151-170), on the items of a reply.
validate_prompt(prompt) == prompt = "valid"

\* Mutant of batch_exists: no checkpoint is ever found.
batch_exists_Never(file_content) == FALSE

\* CheckpointManager.batch_exists (lines 187-189).
batch_exists(file_content) == file_content # None

\* CheckpointManager.save_batch (lines 191-195): the content of the file after it.
save_batch(prompts) == prompts

\* Line 347: the words that make an error one that is not retried.
IsAuthError(e) ==
    \E k \in 1..Len(e.msg) : e.msg[k] \in {"invalid_api_key", "401", "authentication"}

\* Mutant of RetryHasNext: the loop runs once more.
RetryHasNext_OneMore(a) == a < max_retries

\* Line 338: for attempt in range(config.max_retries) has a value after a.
RetryHasNext(a) == a + 1 < max_retries

\* Line 352: the attempt is followed by a sleep.
Backoff(a) == a < max_retries - 1

\* Mutant of Locked: the semaphore never blocks.
Locked_Never(value) == FALSE

\* asyncio.Semaphore.locked(): acquire has to wait (line 380).
Locked(value) == value = 0

\* How generate_batch_with_retry ended.
RetryResult(how, data, error) == [how |-> how, data |-> data, error |-> error]
NoResult == RetryResult("none", <<>>, NoException)

GenInit ==
    /\ main_pc = "create"
    /\ max_concurrent \in 1..MaxConcurrent
    /\ checkpoint \in [Batches -> {None, OldCheckpoint}]
    /\ semaphore = 0
    /\ completed = 0
    /\ failed = 0
    /\ task_pc = [b \in Batches |-> "none"]
    /\ attempt = [b \in Batches |-> 0]
    /\ last_error = [b \in Batches |-> NoException]
    /\ retry_result = [b \in Batches |-> NoResult]
    /\ outcome = [b \in Batches |-> "none"]
    /\ calls = [b \in Batches |-> 0]
    /\ pc = "gen"
    /\ input = NoInput
    /\ output = <<>>
    /\ SessionIdle

\* The steps of generate_all_parallel leave the session of agent_loop alone.
SessionUnchanged ==
    UNCHANGED <<pc, simple_mode, max_iterations, reflexc, iteration, current_code, errors,
                compiler_output, conversation_history, messages, response, file, exit,
                ret, events, wire, input, output>>

\* Lines 409-424: the progress tracker, the semaphore and one task per batch.
CreateTasks ==
    /\ main_pc = "create"
    /\ semaphore' = max_concurrent
    /\ completed' = 0
    /\ failed' = 0
    /\ task_pc' = [b \in Batches |-> "created"]
    /\ main_pc' = "gather"
    /\ UNCHANGED <<max_concurrent, checkpoint, attempt, last_error, retry_result,
                   outcome, calls>>
    /\ SessionUnchanged

\* The task of batch b ends: mark_complete or mark_failed was called (lines
\* 236-244), and the semaphore, if held, is released.
Finish(b, how, held) ==
    /\ task_pc' = [task_pc EXCEPT ![b] = "done"]
    /\ outcome' = [outcome EXCEPT ![b] = how]
    /\ completed' = IF how = "failed" THEN completed ELSE completed + 1
    /\ failed' = IF how = "failed" THEN failed + 1 ELSE failed
    /\ semaphore' = IF held THEN semaphore + 1 ELSE semaphore

\* Lines 339-342: generate_batch is called and awaits the API.
Request(b, a) ==
    /\ task_pc' = [task_pc EXCEPT ![b] = "request"]
    /\ attempt' = [attempt EXCEPT ![b] = a]
    /\ calls' = [calls EXCEPT ![b] = @ + 1]

\* Lines 376-383: process_batch up to its first await that suspends: the batch is
\* skipped when its checkpoint exists; else the semaphore is taken and the first
\* request made, or the task waits for the semaphore.
StartBatch(b) ==
    /\ main_pc = "gather"
    /\ task_pc[b] = "created"
    /\ IF batch_exists(checkpoint[b])
       THEN /\ Finish(b, "skipped", FALSE)
            /\ UNCHANGED <<attempt, calls>>
       ELSE IF Locked(semaphore)
       THEN /\ task_pc' = [task_pc EXCEPT ![b] = "acquire"]
            /\ UNCHANGED <<semaphore, completed, failed, outcome, attempt, calls>>
       ELSE /\ semaphore' = semaphore - 1
            /\ Request(b, 0)
            /\ UNCHANGED <<completed, failed, outcome>>
    /\ UNCHANGED <<main_pc, max_concurrent, checkpoint, last_error, retry_result>>
    /\ SessionUnchanged

\* Line 380: a waiting task gets the semaphore and makes its first request.
Acquire(b) ==
    /\ task_pc[b] = "acquire"
    /\ ~Locked(semaphore)
    /\ semaphore' = semaphore - 1
    /\ Request(b, 0)
    /\ UNCHANGED <<main_pc, max_concurrent, checkpoint, completed, failed, last_error,
                   retry_result, outcome>>
    /\ SessionUnchanged

\* generate_batch_with_retry raises e (lines 348 and 356): process_batch counts
\* the batch as failed (lines 397-399).
Raise(b, e) ==
    /\ retry_result' = [retry_result EXCEPT ![b] = RetryResult("raised", <<>>, e)]
    /\ Finish(b, "failed", TRUE)
    /\ UNCHANGED <<checkpoint, attempt, calls>>

\* Lines 339-356 and 385-399: the API answers the request of batch b.  Data is
\* returned at once: the valid prompts are saved and the batch is complete; data
\* that cannot be iterated raises in line 388 and the batch fails.  An error is
\* raised again when it is an authentication error; else the task sleeps before
\* the next attempt, or goes to the next attempt, or raises the last error.
Respond(b) ==
    /\ task_pc[b] = "request"
    /\ \E reply \in ApiReplies :
         IF reply.how = "data"
         THEN /\ retry_result' =
                   [retry_result EXCEPT ![b] = RetryResult("returned", reply.items, NoException)]
              /\ IF reply.iterable
                 THEN /\ checkpoint' =
                           [checkpoint EXCEPT
                              ![b] = save_batch(SelectSeq(reply.items, validate_prompt))]
                      /\ Finish(b, "saved", TRUE)
                 ELSE /\ Finish(b, "failed", TRUE)
                      /\ UNCHANGED checkpoint
              /\ UNCHANGED <<attempt, last_error, calls>>
         ELSE LET e == Exception(reply.msg, attempt[b]) IN
              /\ last_error' = [last_error EXCEPT ![b] = e]
              /\ IF IsAuthError(e) THEN Raise(b, e)
                 ELSE IF Backoff(attempt[b])
                 THEN /\ task_pc' = [task_pc EXCEPT ![b] = "sleep"]
                      /\ UNCHANGED <<checkpoint, semaphore, completed, failed, attempt,
                                     retry_result, outcome, calls>>
                 ELSE IF RetryHasNext(attempt[b])
                 THEN /\ Request(b, attempt[b] + 1)
                      /\ UNCHANGED <<checkpoint, semaphore, completed, failed,
                                     retry_result, outcome>>
                 ELSE Raise(b, e)
    /\ UNCHANGED <<main_pc, max_concurrent>>
    /\ SessionUnchanged

\* Lines 353-354 and 338: the sleep is over and the loop goes on.
Wake(b) ==
    /\ task_pc[b] = "sleep"
    /\ IF RetryHasNext(attempt[b])
       THEN /\ Request(b, attempt[b] + 1)
            /\ UNCHANGED <<checkpoint, semaphore, completed, failed, retry_result, outcome>>
       ELSE Raise(b, last_error[b])
    /\ UNCHANGED <<main_pc, max_concurrent, last_error>>
    /\ SessionUnchanged

\* Lines 427-437: gather returns when every task has ended; the results are read
\* from the checkpoint files.
Gather ==
    /\ main_pc = "gather"
    /\ \A b \in Batches : task_pc[b] = "done"
    /\ main_pc' = "returned"
    /\ UNCHANGED <<max_concurrent, checkpoint, semaphore, completed, failed, task_pc,
                   attempt, last_error, retry_result, outcome, calls>>
    /\ SessionUnchanged

GenNext ==
    \/ CreateTasks
    \/ \E b \in Batches : StartBatch(b)
    \/ \E b \in Batches : Acquire(b)
    \/ \E b \in Batches : Respond(b)
    \/ \E b \in Batches : Wake(b)
    \/ Gather

GenSpec == GenInit /\ [][GenNext]_vars

\* Every request is answered or raises, and every sleep ends.
GenFairSpec == GenSpec /\ WF_vars(GenNext)

\* The batches inside the generation section (lines 380-396).
Generating == {b \in Batches : task_pc[b] \in {"request", "sleep"}}

----------------------------------------------------------------------------
\* What the properties below read from the log

EventsOf(kind) == {i \in 1..Len(events) : events[i].ev = kind}

\* The number of calls of call_vllm and of run_reflexc so far.
OracleCalls == Cardinality(EventsOf("oracle"))
VerifierCalls == Cardinality(EventsOf("verify"))

Terminal == {"Success", "ExhaustedIterations", "FatalError"}

\* The session ended before the loop (lines 652, 658, 665, 679).
SetupFailed ==
    exit \in {"system_prompt_error", "user_prompt_error", "oracle_unreachable", "no_compiler"}

----------------------------------------------------------------------------
\* C1: a session with max_iterations = N calls the oracle at most N times, ends
\* (under every behaviour of the oracle and of the verifier) with one of the
\* outcomes Success, ExhaustedIterations, FatalError, and an outcome reached is
\* never changed.
C1_BoundedAndTerminates ==
    /\ [](OracleCalls <= max_iterations)
    /\ [](pc = "done" <=> Outcome # "InProgress")
    /\ <>(pc = "done" /\ Outcome \in Terminal)
    /\ [][Outcome # "InProgress" => Outcome' = Outcome]_vars

C1_Witness ==
    /\ pc = "done"
    /\ Outcome = "ExhaustedIterations"
    /\ max_iterations = MaxIter
    /\ OracleCalls = max_iterations

\* C2: when the verifier passes in iteration k, that run of the verifier is the
\* last call of the session, the session is over with outcome Success in
\* iteration k, and the output file holds the text the verifier read, which is the
\* candidate written in iteration k.
C2_SuccessStops ==
    \A i \in EventsOf("verify") :
        events[i].tag = "pass" =>
            /\ i = Len(events)
            /\ pc = "done" /\ Outcome = "Success" /\ ret = 0
            /\ iteration = events[i].it
            /\ file = events[i].text
            /\ events[i].text = current_code
            /\ events[i - 1].ev = "write"
            /\ events[i - 1].it = events[i].it
            /\ events[i - 1].text = file

C2_Witness ==
    /\ pc = "done"
    /\ Outcome = "Success"
    /\ iteration >= 2
    /\ file = CodeB
    /\ \E i \in EventsOf("write") : events[i].text = CodeA

\* C3: in a session that reaches the loop with max_iterations = N >= 1, where the
\* verifier never passes and every oracle reply holds an extractable candidate,
\* the session ends after exactly N oracle calls with outcome
\* ExhaustedIterations, and the output file holds the candidate extracted from
\* the reply of iteration N.
C3_AlwaysFailing ==
    /\ \A i \in EventsOf("verify") : events[i].tag # "pass"
    /\ \A i \in EventsOf("oracle") : ~Falsy(extract_code_from_response(events[i].text))

C3_ExhaustsWithLastCandidate ==
    (pc = "done" /\ ~SetupFailed /\ max_iterations >= 1 /\ C3_AlwaysFailing) =>
        /\ OracleCalls = max_iterations
        /\ Outcome = "ExhaustedIterations"
        /\ \E i \in EventsOf("oracle") :
             /\ events[i].it = max_iterations
             /\ file = extract_code_from_response(events[i].text)

C3_Witness ==
    /\ pc = "done" /\ ~SetupFailed /\ max_iterations = MaxIter /\ C3_AlwaysFailing
    /\ file = CodeA
    /\ \E i \in EventsOf("oracle") :
         events[i].it = 2 /\ extract_code_from_response(events[i].text) = CodeB

\* C4: when no compiler is found at the start (neither the platform path nor
\* `which reflexc`), the session is over at once with outcome FatalError: only
\* the health probe and the model query have run, the oracle was never asked
\* to generate, the verifier never ran and no file was written.
C4_NoCompilerIsFatal ==
    \A i \in EventsOf("detect") :
        events[i].tag = "missing" =>
            /\ pc = "done" /\ Outcome = "FatalError" /\ ret = 1
            /\ exit = "no_compiler"
            /\ OracleCalls = 0 /\ VerifierCalls = 0
            /\ file = None
            /\ iteration = 0
            /\ Len(events) = 3
            /\ events[1].ev = "health" /\ events[2].ev = "models"

C4_Witness ==
    /\ exit = "no_compiler"
    /\ \E i \in EventsOf("detect") : events[i].tag = "missing"

\* C5: when the verifier turns out to be missing while a candidate is being
\* verified (FileNotFoundError in run_reflexc), the session ends with outcome
\* FatalError in that iteration: no feedback turn is built, no next iteration is
\* begun and the oracle is not called again.
C5_MissingVerifierIsFatal ==
    \A i \in EventsOf("verify") :
        events[i].tag = "notfound" =>
            /\ i = Len(events)
            /\ iteration = events[i].it
            /\ pc # "call"
            /\ pc = "done" => Outcome = "FatalError"

\* C6: a timeout of the verifier, or another error of its launch, is an ordinary
\* failed verification: run_reflexc returns failure with a synthetic error text
\* (no exception leaves it), the session is not over unless that was the last
\* iteration, and with iterations left the next thing sent to the oracle ends
\* with a feedback turn about the candidate, built from that text.
C6_Synthetic(tag) ==
    IF tag = "timeout"
    THEN <<TextLine(<<"Error:", SP, "reflexc", SP, "timed", SP, "out">>)>>
    ELSE <<TextLine(<<"Error", SP, "running", SP, "reflexc:", SP, tag>>)>>

C6_LaunchErrorIsRetried ==
    \A i \in EventsOf("verify") :
        events[i].tag \in {"timeout", "OSError"} =>
            /\ i < Len(events) =>
                 /\ events[i + 1].ev = "oracle"
                 /\ events[i + 1].it = events[i].it + 1
            /\ i = Len(events) =>
                 /\ compiler_output = C6_Synthetic(events[i].tag)
                 /\ errors = parse_errors(compiler_output)
                 /\ pc \in {"loop", "call", "done"}
                 /\ pc = "loop" => exit = "none" /\ iteration = events[i].it
                 /\ pc = "done" =>
                      Outcome = "ExhaustedIterations" /\ events[i].it = max_iterations
                 /\ pc = "call" =>
                      /\ iteration = events[i].it + 1
                      /\ messages = conversation_history
                      /\ messages[Len(messages)] =
                           Turn("user", format_error_feedback_for_history(
                                          current_code, errors, compiler_output, simple_mode))
                      /\ messages[Len(messages)].content.text = events[i].text

C6_Witness ==
    /\ \E i \in EventsOf("verify") : events[i].tag = "timeout" /\ i < Len(events)
    /\ \E i \in EventsOf("verify") : events[i].tag = "OSError" /\ i < Len(events)

\* C7: when the health probe fails (the server refuses, or answers with a status
\* other than 200), the session is over with a fatal result before the loop:
\* nothing else was called, the oracle generated nothing, the verifier never
\* ran and no file was written.
C7_UnhealthyIsFatal ==
    \A i \in EventsOf("health") :
        events[i].tag # "200" =>
            /\ pc = "done" /\ Outcome = "FatalError" /\ ret = 1
            /\ exit = "oracle_unreachable"
            /\ Len(events) = 1
            /\ OracleCalls = 0 /\ VerifierCalls = 0
            /\ iteration = 0
            /\ file = None
            /\ conversation_history = <<>>

C7_Witness ==
    /\ exit = "oracle_unreachable"
    /\ events = <<Event("health", 0, <<>>, "503")>>

\* C8: when the oracle rejects a generation call with an authentication status
\* (401), the oracle is not called again and the session ends with outcome
\* FatalError.
C8_AuthRejectionIsFatal ==
    \A i \in EventsOf("oracle") :
        events[i].tag = "401" =>
            /\ \A j \in EventsOf("oracle") : j <= i
            /\ pc = "done" => Outcome = "FatalError"

\* C9: the conversation history only grows: every step leaves the turns already
\* in it where they are.
C9_HistoryAppendOnly ==
    [][IsPrefix(conversation_history, conversation_history')]_vars

\* C10: once the first iteration has built it, the history is one system turn,
\* one user turn, and then assistant and user turns in alternation (a feedback
\* turn always follows an assistant turn).
C10_RolesAlternate ==
    iteration >= 1 =>
        /\ Len(conversation_history) >= 2
        /\ conversation_history[1].role = "system"
        /\ \A k \in 2..Len(conversation_history) :
             conversation_history[k].role = IF k % 2 = 0 THEN "user" ELSE "assistant"

\* The last entry of the log of the given kinds (0 when there is none).
LastOf(kinds) ==
    Max({0} \cup {i \in 1..Len(events) : events[i].ev \in kinds})

\* C11: at every call of the oracle and at every run of the verifier the loop
\* variable is between 1 and max_iterations, and from one call of the oracle to
\* the next one it grows by exactly one.
C11_IterationCounter ==
    /\ \A i \in EventsOf("oracle") \cup EventsOf("verify") :
         1 <= events[i].it /\ events[i].it <= max_iterations
    /\ \A i, j \in EventsOf("oracle") :
         (i < j /\ \A m \in EventsOf("oracle") : ~(i < m /\ m < j)) =>
             events[j].it = events[i].it + 1
    /\ pc \in {"call", "extract", "compile"} =>
         1 <= iteration /\ iteration <= max_iterations

C11_Witness ==
    /\ OracleCalls = MaxIter
    /\ VerifierCalls >= 1
    /\ \E i \in EventsOf("oracle") : events[i].it = 2 /\ Falsy(events[i].text)
    /\ \E i \in EventsOf("oracle") : events[i].it = MaxIter /\ events[i].tag = "broken"

\* C12: once a candidate is attempted, the output file holds exactly the current
\* candidate after every step: it is the text last written and the code last
\* extracted from a reply; so it is when the session is over, after a failure and
\* after the last iteration too.
C12_ArtifactIsCandidate ==
    /\ current_code # None => file = current_code
    /\ LastOf({"write"}) # 0 =>
         /\ file = events[LastOf({"write"})].text
         /\ current_code = events[LastOf({"write"})].text
    /\ \A i \in EventsOf("extract") :
         (events[i].tag = "found"
            /\ \A j \in EventsOf("extract") : j > i => events[j].tag # "found") =>
             file = events[i].text

C12_Witness ==
    /\ pc = "done" /\ Outcome = "ExhaustedIterations"
    /\ file = CodeB
    /\ \E i \in EventsOf("write") : events[i].text = CodeA
    /\ events[Len(events)].ev = "verify" /\ events[Len(events)].tag = "fail"

\* C13: the value returned tells the outcomes apart: 0 is returned for Success
\* and for nothing else, 1 (the value of the returns at lines 652, 658, 665 and
\* 679) for a FatalError and for nothing else, so that ExhaustedIterations
\* returns a third value.
C13_StatusDistinguishes ==
    pc = "done" =>
        /\ ret = 0 <=> Outcome = "Success"
        /\ ret = 1 <=> Outcome = "FatalError"

\* A candidate existed before entry i of the log: the file was written before it.
CandidateBefore(i) == \E j \in EventsOf("write") : j < i

\* The candidate before entry i of the log: the text last written before it.
PriorCandidate(i) ==
    events[Max({j \in EventsOf("write") : j < i})].text

\* C14: when the oracle gives an empty reply, or none, while a candidate of an
\* earlier iteration exists, the session goes on to the verification in the same
\* iteration: what follows the call in the log belongs to the same iteration
\* and leads to a run of the verifier, and the loop is not resumed before it.
C14_EmptyReplyVerifiesPrior ==
    \A i \in EventsOf("oracle") :
        (Falsy(events[i].text) /\ CandidateBefore(i)) =>
            /\ i = Len(events) =>
                 pc \in {"extract", "compile"} /\ iteration = events[i].it
            /\ i < Len(events) =>
                 /\ events[i + 1].ev \in {"extract", "write", "verify"}
                 /\ events[i + 1].it = events[i].it

\* C15: when nothing is extracted from a reply that is not empty while an earlier
\* candidate exists, the candidate stays the earlier one: it is what is written
\* and what the verifier reads in that iteration; and every text ever written is
\* the code extracted from some reply, never the text of a reply without code.
C15_FallbackKeepsPrior ==
    /\ \A i \in EventsOf("extract") :
         (Falsy(events[i].text) /\ CandidateBefore(i)) =>
             /\ events[i].tag = "fallback"
             /\ i < Len(events)
             /\ events[i + 1].ev = "write"
             /\ events[i + 1].it = events[i].it
             /\ events[i + 1].text = PriorCandidate(i)
             /\ i + 1 = Len(events) =>
                  current_code = PriorCandidate(i) /\ file = PriorCandidate(i)
             /\ i + 1 < Len(events) =>
                  /\ events[i + 2].ev = "verify"
                  /\ events[i + 2].it = events[i].it
                  /\ events[i + 2].text = PriorCandidate(i)
    /\ \A w \in EventsOf("write") :
         \E o \in EventsOf("oracle") :
             /\ o < w
             /\ ~Falsy(events[o].text)
             /\ events[w].text = extract_code_from_response(events[o].text)

C15_Witness ==
    \E i \in EventsOf("extract") :
        /\ events[i].tag = "fallback"
        /\ events[i].it = 2
        /\ i + 2 <= Len(events)
        /\ events[i + 2].ev = "verify"
        /\ events[i + 2].text = CodeA

\* C16: when nothing is extracted from the reply of an iteration after the first
\* while an earlier candidate exists, the verifier does not run in that
\* iteration.
C16_FallbackSkipsVerifier ==
    \A i \in EventsOf("extract") :
        (Falsy(events[i].text) /\ events[i].it > 1 /\ CandidateBefore(i)) =>
            \A v \in EventsOf("verify") : events[v].it # events[i].it

\* C17: in an iteration whose reply is empty or holds no code, while no candidate
\* has existed so far, nothing is made up: no file is written and the verifier
\* does not run in that iteration, there is still no candidate after it, the
\* next call of the oracle (if any) is made in the next iteration, and there is
\* no next call when that iteration was the last one.
C17_NothingFabricated ==
    \A i \in EventsOf("oracle") :
        ((Falsy(events[i].text) \/ Falsy(extract_code_from_response(events[i].text)))
            /\ ~CandidateBefore(i)) =>
            /\ \A j \in EventsOf("write") \cup EventsOf("verify") :
                 events[j].it # events[i].it
            /\ iteration = events[i].it =>
                 /\ current_code = None /\ file = None
                 /\ pc \in {"extract", "loop", "done"}
                 /\ pc = "done" => Outcome = "ExhaustedIterations"
            /\ \A j \in EventsOf("oracle") :
                 j > i => events[j].it > events[i].it /\ events[j].it <= max_iterations
            /\ (i = LastOf({"oracle"}) /\ pc = "call") => iteration = events[i].it + 1
            /\ events[i].it = max_iterations => i = LastOf({"oracle"}) /\ pc # "call"

C17_Witness ==
    /\ pc = "done" /\ Outcome = "ExhaustedIterations"
    /\ max_iterations = MaxIter /\ OracleCalls = MaxIter
    /\ EventsOf("write") = {} /\ file = None
    /\ \E i \in EventsOf("oracle") : Falsy(events[i].text)
    /\ \E i \in EventsOf("extract") : events[i].tag = "none"

\* The log ends with a run of the verifier with this verdict.
JustVerified(tags) ==
    /\ Len(events) > 0
    /\ events[Len(events)].ev = "verify"
    /\ events[Len(events)].tag \in tags

\* C18: after a timeout of the verifier in an iteration that is not the last, the
\* user turn that ends the messages of the next oracle call holds the text
\* "Error: reflexc timed out", in the minimal and in the full format.
C18_TimedOutText == <<"Error:", SP, "reflexc", SP, "timed", SP, "out">>

C18_Mentions(content, text) ==
    \/ /\ content.kind = "minimal"
       /\ \E k \in 1..Len(content.entries) : content.entries[k].message = text
    \/ \E k \in 1..Len(content.raw) : content.raw[k].line.text = text

C18_TimeoutIsSurfaced ==
    (pc = "call" /\ JustVerified({"timeout"})) =>
        /\ messages[Len(messages)].role = "user"
        /\ C18_Mentions(messages[Len(messages)].content, C18_TimedOutText)

\* C19: when the loop goes on after a failed verification, the messages of the
\* next oracle call are the whole history as it was at the end of the failed
\* iteration followed by one user turn; that turn is the feedback composed from
\* the text the verifier just read, which it holds as it is, and from the output
\* of that same run of the verifier.
C19_OutputOf(tag) ==
    Only({run_reflexc(proc).output : proc \in {q \in ProcResults : ProcTag(q) = tag}})

C19_FeedbackFollowsFailure ==
    [][(pc = "loop" /\ pc' = "call" /\ JustVerified({"fail", "timeout", "notfound", "OSError"})) =>
         LET verified == events[Len(events)]
             out      == C19_OutputOf(verified.tag)
         IN  /\ messages' =
                  Append(conversation_history,
                         Turn("user", format_error_feedback_for_history(
                                        verified.text, parse_errors(out), out,
                                        simple_mode)))
             /\ messages'[Len(messages')].content.text = verified.text
             /\ iteration' = verified.it + 1
       ]_vars

C19_Witness ==
    /\ pc = "call" /\ iteration = 3
    /\ JustVerified({"fail"})
    /\ events[Len(events)].text = CodeB
    /\ \E i \in EventsOf("verify") : events[i].tag = "timeout" /\ events[i].text = CodeA
    /\ Len(messages) = 6

\* C20: the calls of a session come one after the other: in an iteration the
\* oracle is called, then the code is extracted, then the file is written, then
\* the verifier runs and reads what was just written; the oracle call of the
\* next iteration comes only after the iteration before it is through (its
\* reply was empty, nothing was extracted, or the verifier has returned), and by
\* then the output of that run of the verifier is what the session holds.
Rank(ev) ==
    IF ev = "oracle" THEN 1 ELSE IF ev = "extract" THEN 2 ELSE IF ev = "write" THEN 3
    ELSE IF ev = "verify" THEN 4 ELSE 0

C20_Sequential ==
    /\ \A i \in 1..(Len(events) - 1) :
         LET a == events[i]
             b == events[i + 1]
         IN  Rank(b.ev) # 0 =>
               \/ Rank(a.ev) = 0 /\ b.ev = "oracle" /\ b.it = 1
               \/ Rank(a.ev) # 0 /\ b.it = a.it /\ Rank(b.ev) = Rank(a.ev) + 1
               \/ /\ b.ev = "oracle" /\ b.it = a.it + 1
                  /\ \/ a.ev = "oracle" /\ Falsy(a.text)
                     \/ a.ev = "extract" /\ a.tag = "none"
                     \/ a.ev = "verify" /\ a.tag # "pass"
    /\ \A i \in EventsOf("verify") : events[i].text = events[i - 1].text
    /\ (pc = "call" /\ JustVerified({"fail", "timeout", "notfound", "OSError"})) =>
         compiler_output = C19_OutputOf(events[Len(events)].tag)
    /\ pc = "compile" => events[Len(events)].ev = "write"

C20_Witness ==
    /\ pc = "done" /\ Outcome = "Success"
    /\ iteration = 3
    /\ \E i \in EventsOf("oracle") : events[i].it = 2 /\ Falsy(events[i].text)
    /\ \E i \in EventsOf("verify") : events[i].it = 1 /\ events[i].tag = "fail"
    /\ \E i \in EventsOf("extract") : events[i].it = 3 /\ events[i].tag = "fallback"

\* C21: the text handed to extract_code_from_response is the whole reply: the
\* fragments of the stream, all of them, one after the other in the order of
\* their arrival, up to the end of the stream; when the stream broke, or the
\* oracle did not answer 200, nothing is handed to the extractor.
RECURSIVE C21_Offset(_, _)
C21_Offset(frags, k) ==
    IF k <= 1 THEN 0 ELSE C21_Offset(frags, k - 1) + Len(frags[k - 1])

C21_InArrivalOrder(frags, text) ==
    /\ text # None
    /\ Len(text) = C21_Offset(frags, Len(frags) + 1)
    /\ \A k \in 1..Len(frags) : \A j \in 1..Len(frags[k]) :
         text[C21_Offset(frags, k) + j] = frags[k][j]

C21_ExtractorSeesWholeReply ==
    /\ (pc = "extract" \/ LastOf({"extract"}) > LastOf({"oracle"})) =>
         /\ wire.exc = "none" /\ wire.status = "200"
         /\ C21_InArrivalOrder(wire.frags, response)
         /\ events[LastOf({"oracle"})].text = response
    /\ (wire.exc # "none" /\ wire # NoWire) =>
         pc # "extract" /\ LastOf({"extract"}) < LastOf({"oracle"})

C21_Witness ==
    /\ pc = "compile"
    /\ Len(wire.frags) = 3
    /\ LastOf({"extract"}) > LastOf({"oracle"})
    /\ \E i \in EventsOf("oracle") : events[i].tag = "broken"

\* C26: the format of the feedback is chosen once for the session: no step
\* changes simple_mode, and every feedback turn of the history and of the
\* messages sent is in the format simple_mode selects.
C26_KindOfMode == IF simple_mode THEN "minimal" ELSE "rich"

C26_FeedbackTurns(turns) ==
    {k \in 1..Len(turns) : turns[k].content.kind \in {"minimal", "rich"}}

C26_ModeIsFixed ==
    /\ [][simple_mode' = simple_mode]_vars
    /\ [](\A k \in C26_FeedbackTurns(conversation_history) :
            conversation_history[k].content.kind = C26_KindOfMode)
    /\ [](\A k \in C26_FeedbackTurns(messages) :
            messages[k].content.kind = C26_KindOfMode)

C26_Witness ==
    /\ Cardinality(C26_FeedbackTurns(conversation_history)) = 2
    /\ simple_mode
    /\ errors = <<>>
    /\ \E i \in EventsOf("verify") : events[i].tag = "fail"

\* The parts of the given kinds in a reply, by position.
PartsOf(parts, kinds) == {k \in 1..Len(parts) : parts[k].kind \in kinds}

\* C22: when a reply holds a fenced block tagged reflexscript, what is extracted
\* is the inner text of the first such block, without the fences and without
\* the whitespace at its ends, whatever untagged blocks and keyword spans the
\* reply holds before or after it.
C22_TaggedFenceFirst ==
    (Called("extract_code_from_response") /\ PartsOf(input.arg, {"tagged"}) # {}) =>
        output = input.arg[Min(PartsOf(input.arg, {"tagged"}))].code

C22_Witness ==
    /\ Called("extract_code_from_response")
    /\ Len(input.arg) = 3
    /\ input.arg[1].kind = "untagged" /\ HasKeyword(input.arg[1].code)
    /\ input.arg[2].kind = "span"
    /\ input.arg[3].kind = "tagged"
    /\ output = <<"b", SP, "c">>

\* C29: in a reply without fences, the scan starts at the first keyword; the
\* braces are matched from the first opening brace after it (a closing brace
\* before that one counts for nothing), and what is extracted is the text from
\* the keyword to the closing brace at which the depth is back to zero; there is
\* no candidate when the depth never comes back to zero.
RECURSIVE C29_Close(_, _, _)
C29_Close(s, i, depth) ==
    IF i > Len(s) THEN 0
    ELSE IF s[i] = LB THEN C29_Close(s, i + 1, depth + 1)
    ELSE IF s[i] = RB
         THEN IF depth - 1 = 0 THEN i ELSE C29_Close(s, i + 1, depth - 1)
    ELSE C29_Close(s, i + 1, depth)

C29_Expected(s) ==
    LET kw     == Min(KwPositions(s))
        braces == {i \in kw..Len(s) : s[i] = LB}
    IN  IF braces = {} \/ C29_Close(s, Min(braces), 0) = 0 THEN None
        ELSE Strip(SubSeq(s, kw, C29_Close(s, Min(braces), 0)))

C29_ScanFromFirstBrace ==
    (Called("extract_code_from_response")
        /\ PartsOf(input.arg, {"tagged", "untagged"}) = {}
        /\ HasKeyword(ReplyText(input.arg))) =>
        output = C29_Expected(ReplyText(input.arg))

\* C30: in a reply without a tagged fence, the inner text of the first untagged
\* fenced block is what is extracted when it holds the keyword; when it does
\* not, it is not returned: the result is that of the scan from the first
\* keyword of the reply (no candidate when the reply holds no keyword).
C30_FirstKeywordPart(parts) ==
    {k \in 1..Len(parts) : HasKeyword(parts[k].text)}

C30_UntaggedNeedsKeyword ==
    (Called("extract_code_from_response")
        /\ PartsOf(input.arg, {"tagged"}) = {}
        /\ PartsOf(input.arg, {"untagged"}) # {}) =>
        LET block == input.arg[Min(PartsOf(input.arg, {"untagged"}))]
        IN  /\ HasKeyword(block.code) => output = block.code
            /\ ~HasKeyword(block.code) =>
                 /\ output # block.code
                 /\ output = IF C30_FirstKeywordPart(input.arg) = {} THEN None
                             ELSE input.arg[Min(C30_FirstKeywordPart(input.arg))].code

C30_Witness ==
    /\ Called("extract_code_from_response")
    /\ Len(input.arg) = 3
    /\ input.arg[1].kind = "untagged" /\ ~HasKeyword(input.arg[1].code)
    /\ input.arg[2].kind = "span"
    /\ input.arg[3].kind = "untagged" /\ HasKeyword(input.arg[3].code)
    /\ output = input.arg[2].code

\* The lines of the given kinds in an output, by position.
LinesOf(lines, kinds) == {k \in 1..Len(lines) : lines[k].is \in kinds}

\* The position of the j-th diagnostic line of an output.
NthDiag(lines, j) ==
    CHOOSE k \in LinesOf(lines, {"diag"}) :
        Cardinality({i \in LinesOf(lines, {"diag"}) : i <= k}) = j

\* C23: for an output made of diagnostic lines, each followed by at most one
\* Suggestion line, parse_errors returns one record for each diagnostic line, in
\* the order of the lines, with the line number, the column and the message of
\* that line, and with the suggestion that follows that line (none when none
\* follows it).
C23_DiagsAndSuggestions(lines) ==
    /\ LinesOf(lines, {"diag", "sugg"}) = 1..Len(lines)
    /\ lines[1].is = "diag"
    /\ \A k \in 2..Len(lines) : lines[k].is = "sugg" => lines[k - 1].is = "diag"

C23_OneRecordPerDiagnostic ==
    (Called("parse_errors") /\ C23_DiagsAndSuggestions(input.arg)) =>
        /\ Len(output) = Cardinality(LinesOf(input.arg, {"diag"}))
        /\ \A j \in 1..Len(output) :
             LET k == NthDiag(input.arg, j)
             IN  /\ output[j].line = input.arg[k].ln
                 /\ output[j].column = input.arg[k].col
                 /\ output[j].message = input.arg[k].msg
                 /\ output[j].suggestion =
                      IF k < Len(input.arg) /\ input.arg[k + 1].is = "sugg"
                      THEN input.arg[k + 1].msg ELSE None

\* C27: the indented lines that follow a diagnostic line are continuations of
\* its message: parse_errors appends them to the message of the record, in
\* order, each after a blank.
RECURSIVE C27_Joined(_, _)
C27_Joined(lines, k) ==
    IF k > Len(lines) THEN <<>> ELSE <<SP>> \o lines[k].msg \o C27_Joined(lines, k + 1)

C27_IndentedContinuation ==
    (Called("parse_errors")
        /\ Len(input.arg) >= 2
        /\ input.arg[1].is = "diag"
        /\ \A k \in 2..Len(input.arg) :
             input.arg[k].is = "cont" /\ input.arg[k].text[1] = SP) =>
        /\ Len(output) = 1
        /\ output[1].message = input.arg[1].msg \o C27_Joined(input.arg, 2)

\* The number of times a value occurs in a sequence.
Count(q, x) == Cardinality({k \in 1..Len(q) : q[k] = x})

BucketNames == {"syntax_errors", "type_errors", "linker_errors", "warnings", "other_messages"}

\* C24: parse_and_categorize_errors puts every line that is not blank into
\* exactly one of its lists, as often as it occurs in the output, and a blank
\* line into none; and no line with an informational marker is shown in a
\* section of the full report.
C24_Informational(line) ==
    \E k \in 1..Len(line.text) :
        line.text[k] \in {"checking:", "phase:", "processing:", "platform:", "toolchain:"}

C24_EveryLineInOneBucket ==
    /\ Called("parse_and_categorize_errors") =>
         \A k \in 1..Len(input.arg) :
             LET line == input.arg[k]
                 in   == {b \in BucketNames : Count(output[b], line) > 0}
             IN  IF line.kind = "blank" THEN in = {}
                 ELSE /\ Cardinality(in) = 1
                      /\ \A b \in in : Count(output[b], line) = Count(input.arg, line)
    /\ Called("format_error_feedback_for_history") =>
         \A k \in 1..Len(output.raw) : ~C24_Informational(output.raw[k].line)

C24_Witness ==
    /\ Called("parse_and_categorize_errors")
    /\ Len(input.arg) = 3
    /\ input.arg[1] = input.arg[3]
    /\ input.arg[2].kind = "blank"
    /\ C24_Informational(input.arg[1])
    /\ Len(output.other_messages) = 2

\* C28: the category of a line is the first one, in the order informational,
\* syntax, type, linker, warning, other, of which the line holds a marker (the
\* informational lines and the other ones go to the same list), and each list
\* holds its lines in the order they have in the output.
C28_Has(line, words) == \E k \in 1..Len(line.text) : line.text[k] \in words

C28_Expected(line) ==
    IF C24_Informational(line) THEN "other_messages"
    ELSE IF line.kind = "diag" \/ C28_Has(line, {"expected", "missing", "malformed", "error:", "Error:"})
    THEN "syntax_errors"
    ELSE IF C28_Has(line, {"undefined", "undeclared"}) THEN "type_errors"
    ELSE IF C28_Has(line, {"ld:"}) THEN "linker_errors"
    ELSE IF C28_Has(line, {"warning:", "deprecated", "unused"}) THEN "warnings"
    ELSE "other_messages"

C28_FirstMatchWins ==
    Called("parse_and_categorize_errors") =>
        \A b \in BucketNames :
            output[b] = SelectSeq(input.arg,
                                  LAMBDA l : l.kind # "blank" /\ C28_Expected(l) = b)

C28_Witness ==
    /\ Called("parse_and_categorize_errors")
    /\ Len(input.arg) = 3
    /\ Len(output.type_errors) = 1
    /\ C28_Has(output.type_errors[1], {"ld:"})
    /\ Len(output.syntax_errors) = 1
    /\ C28_Has(output.syntax_errors[1], {"undefined"})
    /\ Len(output.linker_errors) = 1
    /\ C28_Has(output.linker_errors[1], {"deprecated"})

\* C25: of any error list format_error_feedback lists the first error of each
\* line number, in the order of the list, and at most the first ten of them;
\* it tells how many were left out, the number of distinct line numbers less
\* ten, exactly when there are more than ten distinct line numbers.
C25_FirstOfLine(errs) ==
    {k \in 1..Len(errs) : \A j \in 1..(k - 1) : errs[j].line # errs[k].line}

C25_Distinct(errs) == Cardinality({errs[k].line : k \in 1..Len(errs)})

C25_DeduplicatedAndCapped ==
    Called("format_error_feedback") =>
        LET errs == input.arg
            kept == output.limited_errors
            nth(k) == CHOOSE i \in C25_FirstOfLine(errs) :
                          Cardinality({j \in C25_FirstOfLine(errs) : j < i}) = k - 1
        IN  /\ Len(kept) = Min({10, C25_Distinct(errs)})
            /\ \A k \in 1..Len(kept) : kept[k] = errs[nth(k)]
            /\ \A k, j \in 1..Len(kept) : k # j => kept[k].line # kept[j].line
            /\ output.truncated <=> C25_Distinct(errs) > 10
            /\ output.truncated => output.more = C25_Distinct(errs) - 10

C25_Witness ==
    /\ Called("format_error_feedback")
    /\ Len(input.arg) = 12
    /\ input.arg[3].line = input.arg[11].line
    /\ Len(output.limited_errors) = 10
    /\ output.limited_errors[10].column = 10
    /\ output.truncated
    /\ output.more = 1

\* C31: the minimal feedback lists the first 5 errors in the order parse_errors
\* gave them and no others; it tells how many are left out, the total less 5,
\* exactly when there are more than 5; and an entry quotes the line of the code
\* exactly when its line number is one of the code's lines.
C31_CodeLines(code) == 1 + Cardinality({k \in 1..Len(code) : code[k] = NL})

C31_MinimalListsFive ==
    (Called("format_error_feedback_for_history") /\ input.arg.simple) =>
        LET errs == input.arg.errors
            n    == Len(errs)
        IN  /\ output.kind = "minimal"
            /\ Len(output.entries) = Min({5, n})
            /\ \A k \in 1..Len(output.entries) :
                 /\ output.entries[k].line = errs[k].line
                 /\ output.entries[k].message = errs[k].message
                 /\ output.entries[k].code # None
                      <=> errs[k].line \in 1..C31_CodeLines(input.arg.code)
            /\ output.more > 0 <=> n > 5
            /\ n > 5 => output.more = n - 5

C31_Witness ==
    /\ Called("format_error_feedback_for_history")
    /\ input.arg.simple
    /\ Len(input.arg.errors) = 7
    /\ input.arg.errors[2].line = 4
    /\ input.arg.code = CodeA
    /\ Len(output.entries) = 5
    /\ output.entries[1].code = <<KW, SP, "a", SP, LB>>
    /\ output.entries[2].code = None
    /\ output.more = 2

\* C32: when no line of the output is a syntax, type or linker error or a
\* warning, the full report has no section and no fixing suggestions and says
\* instead that the verification failed without errors to list; the fixing
\* suggestions are there exactly when there is a syntax, type or linker error.
C32_In(buckets) ==
    {k \in 1..Len(input.arg.raw_output) :
        /\ input.arg.raw_output[k].kind # "blank"
        /\ C28_Expected(input.arg.raw_output[k]) \in buckets}

C32_Has(name) == \E k \in 1..Len(output.entries) : output.entries[k] = ReportPart(name)

C32_Suggestions ==
    (Called("format_error_feedback_for_history") /\ ~input.arg.simple) =>
        (C32_Has("suggestions")
            <=> C32_In({"syntax_errors", "type_errors", "linker_errors"}) # {})

C32_NothingToList ==
    (Called("format_error_feedback_for_history") /\ ~input.arg.simple) =>
        (C32_In({"syntax_errors", "type_errors", "linker_errors", "warnings"}) = {} =>
            /\ output.raw = <<>>
            /\ ~C32_Has("suggestions")
            /\ ~C32_Has("summary"))

C32_SaysNothingToList ==
    /\ C32_Suggestions
    /\ C32_NothingToList
    /\ (Called("format_error_feedback_for_history") /\ ~input.arg.simple) =>
         (C32_In({"syntax_errors", "type_errors", "linker_errors", "warnings"}) = {} =>
            C32_Has("no_itemizable_errors"))

\* C33: the messages the oracle is called with begin with the system turn and
\* end with a user turn, which is the task description before any candidate
\* exists and the feedback on the current candidate after; they never end with
\* an assistant turn.
C33_MessagesEndWithUser ==
    pc = "call" =>
        /\ Len(messages) >= 2
        /\ messages[1] = Turn("system", SystemPrompt(simple_mode))
        /\ messages[Len(messages)].role = "user"
        /\ messages[Len(messages)].content =
             IF current_code = None THEN UserPrompt
             ELSE format_error_feedback_for_history(current_code, errors,
                                                    compiler_output, simple_mode)

C33_Witness ==
    /\ pc = "call"
    /\ Len(messages) >= 6
    /\ messages[Len(messages) - 1].role = "assistant"
    /\ messages[Len(messages)].content.kind \in {"minimal", "rich"}

\* C34: an iteration that ends on an empty reply of the oracle, or on a failed
\* call, leaves the candidate, the errors, the verifier output and the file as
\* they were and appends no turn; so, when a candidate exists, the feedback turn
\* the next iteration appends is the one this iteration appended.
C34_EmptyReply == pc = "call" /\ pc' = "loop"

C34_NextAfterEmptyReply ==
    /\ pc = "loop"
    /\ pc' = "call"
    /\ events # <<>>
    /\ events[Len(events)].ev = "oracle"
    /\ current_code # None

C34_EmptyReplyChangesNothing ==
    [][ /\ C34_EmptyReply =>
            /\ Falsy(response')
            /\ UNCHANGED <<current_code, errors, compiler_output, file, conversation_history>>
        /\ C34_NextAfterEmptyReply =>
            /\ Len(conversation_history') = Len(conversation_history) + 1
            /\ conversation_history'[Len(conversation_history')]
                 = conversation_history[Len(conversation_history)]
      ]_vars

C34_Witness ==
    /\ pc = "call"
    /\ current_code # None
    /\ events[Len(events)].ev = "oracle"
    /\ Falsy(events[Len(events)].text)
    /\ Len(conversation_history) >= 5
    /\ conversation_history[Len(conversation_history)].role = "user"
    /\ conversation_history[Len(conversation_history)]
         = conversation_history[Len(conversation_history) - 1]

\* C35: generate_batch_with_retry calls generate_batch at most max_retries
\* times; once it has returned or raised it calls no more; it calls again only
\* after the call before failed with an error that is no authentication error;
\* the data it returns is the data of its last call; and what it raises is the
\* error of its last call, an authentication error or the error of call number
\* max_retries.
C35_Calls(b) ==
    /\ calls[b] <= max_retries
    /\ retry_result[b].how = "raised" =>
         /\ retry_result[b].error = last_error[b]
         /\ last_error[b].at + 1 = calls[b]
         /\ IsAuthError(last_error[b]) \/ calls[b] = max_retries

C35_Step(b) ==
    /\ retry_result[b].how # "none" =>
         /\ calls'[b] = calls[b]
         /\ retry_result'[b] = retry_result[b]
    /\ (calls'[b] # calls[b] /\ calls[b] > 0) =>
         /\ calls'[b] = calls[b] + 1
         /\ last_error[b].at + 1 = calls[b]
         /\ ~IsAuthError(last_error[b])
    /\ (retry_result[b].how = "none" /\ retry_result'[b].how = "returned") =>
         /\ task_pc[b] = "request"
         /\ calls'[b] = calls[b]

C35_RetryStopsAtFirstResult ==
    /\ [](\A b \in Batches : main_pc # "idle" => C35_Calls(b))
    /\ [][main_pc # "idle" => \A b \in Batches : C35_Step(b)]_vars

C35_Witness ==
    /\ main_pc = "returned"
    /\ retry_result[1].how = "raised"
    /\ calls[1] = max_retries
    /\ ~IsAuthError(retry_result[1].error)
    /\ retry_result[2].how = "returned"
    /\ calls[2] = 2
    /\ retry_result[3].how = "raised"
    /\ IsAuthError(retry_result[3].error)
    /\ calls[3] = 2

\* C36: a batch whose checkpoint file exists is skipped: its file is never
\* written again, generate_batch is not called for it and it is counted as
\* completed.  A file is written only in the step in which the generation
\* returned and the batch is saved, so a failed batch has no file; and a batch
\* without a file is not skipped: it goes on to the generation.
C36_Left(b) == task_pc[b] = "created" /\ task_pc'[b] # "created"

C36_Step(b) ==
    /\ checkpoint[b] # None =>
         /\ checkpoint'[b] = checkpoint[b]
         /\ calls'[b] = calls[b]
    /\ (C36_Left(b) /\ checkpoint[b] # None) =>
         /\ task_pc'[b] = "done"
         /\ outcome'[b] = "skipped"
         /\ completed' = completed + 1
         /\ failed' = failed
    /\ (C36_Left(b) /\ checkpoint[b] = None) => task_pc'[b] \in {"acquire", "request"}
    /\ checkpoint'[b] # checkpoint[b] =>
         /\ retry_result'[b].how = "returned"
         /\ outcome'[b] = "saved"

C36_State(b) ==
    /\ outcome[b] = "failed" => checkpoint[b] = None
    /\ outcome[b] = "skipped" => calls[b] = 0
    /\ outcome[b] \in {"saved", "failed"} => calls[b] >= 1

C36_CheckpointedBatchesAreSkipped ==
    /\ [](main_pc # "idle" => \A b \in Batches : C36_State(b))
    /\ [][main_pc # "idle" => \A b \in Batches : C36_Step(b)]_vars

C36_Witness ==
    /\ main_pc = "returned"
    /\ outcome[1] = "skipped" /\ checkpoint[1] = OldCheckpoint /\ calls[1] = 0
    /\ outcome[2] = "failed" /\ checkpoint[2] = None /\ retry_result[2].how = "returned"
    /\ outcome[3] = "saved" /\ checkpoint[3] = <<"valid">> /\ calls[3] = 3

\* C37: at no time are more than max_concurrent batches in the generation;
\* generate_all_parallel returns, every task having ended; and each batch is
\* counted once, as completed or as failed, never again after: at the return
\* completed + failed is the number of batches.
C37_Counted(hows) == Cardinality({b \in Batches : outcome[b] \in hows})

C37_AllBatchesCountedOnce ==
    /\ [](Cardinality(Generating) <= max_concurrent)
    /\ [](main_pc \in {"gather", "returned"} =>
            /\ completed = C37_Counted({"skipped", "saved"})
            /\ failed = C37_Counted({"failed"})
            /\ \A b \in Batches : task_pc[b] = "done" <=> outcome[b] # "none")
    /\ [](main_pc = "returned" =>
            /\ \A b \in Batches : task_pc[b] = "done"
            /\ completed + failed = TotalBatches)
    /\ [][\A b \in Batches : outcome[b] # "none" => outcome'[b] = outcome[b]]_vars
    /\ <>(main_pc = "returned")

C37_Witness ==
    /\ max_concurrent = 2
    /\ Cardinality(Generating) = 2
    /\ \E b \in Batches : task_pc[b] = "acquire"
    /\ \E b \in Batches : task_pc[b] = "sleep"

====
